---- MODULE Spec2Model ----
(***************************************************************************)
(* A model of the request core of popads-sdk: the request executor         *)
(* (src/utils/request.ts), the request logger (src/utils/logger.ts), the   *)
(* default merge of createCampaign (src/clients/campaign.ts with           *)
(* src/config/defaults.ts) and the resource clients.                       *)
(*                                                                         *)
(* JavaScript values are tagged records.  Objects and arrays live in a     *)
(* heap (a sequence of cells addressed by index) so that aliasing and      *)
(* in-place mutation are visible; a "tree" is the same value with every    *)
(* reference replaced by the structure it points to.  JSON text is a       *)
(* sequence of tokens.                                                     *)
(***************************************************************************)
EXTENDS Integers, Sequences, FiniteSets, TLC

(***************************************************************************)
(* JavaScript values                                                       *)
(***************************************************************************)
Undefined == [t |-> "undefined"]
Null == [t |-> "null"]
Num(n) == [t |-> "number", n |-> n]
Str(s) == [t |-> "string", s |-> s]
Bool(b) == [t |-> "boolean", b |-> b]
Ref(r) == [t |-> "ref", r |-> r]
Obj(f) == [t |-> "object", o |-> f]
Arr(a) == [t |-> "array", a |-> a]

EmptyObj == Obj(<<>>)
EmptyArr == Arr(<<>>)

IsRef(v) == v.t = "ref"
IsContainer(v) == v.t \in {"object", "array"}

\* The keys of a cell or tree node in iteration order: the indices of an
\* array in increasing order, the own keys of an object in a fixed order.
RECURSIVE SetToSeq(_)
SetToSeq(S) ==
  IF S = {} THEN <<>>
  ELSE LET k == CHOOSE x \in S : TRUE IN <<k>> \o SetToSeq(S \ {k})

KeysOf(node) ==
  IF node.t = "array" THEN [i \in 1..Len(node.a) |-> i]
  ELSE SetToSeq(DOMAIN node.o)

HasKey(node, k) ==
  IF node.t = "array" THEN k \in 1..Len(node.a) ELSE k \in DOMAIN node.o

\* object[key]: undefined when the key is absent
Get(node, k) ==
  IF ~HasKey(node, k) THEN Undefined
  ELSE IF node.t = "array" THEN node.a[k] ELSE node.o[k]

\* object[key] = value; writing index Len+1 of an array appends
Put(node, k, v) ==
  IF node.t = "array"
  THEN IF k \in 1..Len(node.a) THEN Arr([node.a EXCEPT ![k] = v])
       ELSE Arr(Append(node.a, v))
  ELSE Obj((k :> v) @@ node.o)

(***************************************************************************)
(* The heap                                                                *)
(***************************************************************************)
\* the structure a value denotes in heap h (h is acyclic)
RECURSIVE Tree(_, _)
Tree(h, v) ==
  IF ~IsRef(v) THEN v
  ELSE LET cell == h[v.r] IN
       IF cell.t = "array"
       THEN Arr([i \in 1..Len(cell.a) |-> Tree(h, cell.a[i])])
       ELSE Obj([k \in DOMAIN cell.o |-> Tree(h, cell.o[k])])

\* the addresses reachable from a value
RECURSIVE Reach(_, _)
Reach(h, v) ==
  IF ~IsRef(v) THEN {}
  ELSE LET cell == h[v.r]
           kids == IF cell.t = "array"
                   THEN {cell.a[i] : i \in 1..Len(cell.a)}
                   ELSE {cell.o[k] : k \in DOMAIN cell.o}
       IN {v.r} \cup UNION {Reach(h, w) : w \in kids}

\* Then(h, e) is e; it has the model checker evaluate the heap h first, which
\* keeps the depth of its evaluation bounded when a heap is threaded through
\* a recursion.
Then(h, e) == IF Len(h) >= 0 THEN e ELSE e

\* Allocates one cell whose members are primitives: an object literal
Alloc(h, cell) == [h |-> Append(h, cell), v |-> Ref(Len(h) + 1)]

\* Allocates the structure `tree' in h, parent before children; the result
\* is the new heap and the value (a reference for an object or an array).
RECURSIVE Build(_, _), BuildKids(_, _, _, _)
Build(h, tree) ==
  IF ~IsContainer(tree) THEN [h |-> h, v |-> tree]
  ELSE LET a == Len(h) + 1
           empty == IF tree.t = "array" THEN EmptyArr ELSE EmptyObj
       IN [h |-> BuildKids(Append(h, empty), a, tree, KeysOf(tree)),
           v |-> Ref(a)]

BuildKids(h, a, tree, keys) ==
  IF keys = <<>> THEN h
  ELSE LET k == Head(keys)
           r == Build(h, Get(tree, k))
           h1 == [r.h EXCEPT ![a] = Put(@, k, r.v)]
       IN Then(h1, BuildKids(h1, a, tree, Tail(keys)))

(***************************************************************************)
(* JSON text: a sequence of tokens, the punctuation marks and the literals *)
(***************************************************************************)
LBRACE == [p |-> "{"]
RBRACE == [p |-> "}"]
LBRACK == [p |-> "["]
RBRACK == [p |-> "]"]
COLON == [p |-> ":"]
COMMA == [p |-> ","]

IsLiteral(tok) == "t" \in DOMAIN tok /\ tok.t \in {"number", "string", "boolean", "null"}

\* JSON.stringify of a structure: a member whose value is undefined is
\* omitted from an object, an undefined element of an array is written null
RECURSIVE stringify(_), stringifyMembers(_, _, _), stringifyElements(_, _)
stringify(tree) ==
  IF tree.t = "object"
    THEN <<LBRACE>> \o stringifyMembers(tree, KeysOf(tree), TRUE) \o <<RBRACE>>
  ELSE IF tree.t = "array"
    THEN <<LBRACK>> \o stringifyElements(tree.a, TRUE) \o <<RBRACK>>
  ELSE <<tree>>

stringifyMembers(tree, keys, first) ==
  IF keys = <<>> THEN <<>>
  ELSE LET k == Head(keys)
           v == tree.o[k]
       IN IF v = Undefined THEN stringifyMembers(tree, Tail(keys), first)
          ELSE (IF first THEN <<>> ELSE <<COMMA>>)
               \o <<Str(k), COLON>> \o stringify(v)
               \o stringifyMembers(tree, Tail(keys), FALSE)

stringifyElements(elems, first) ==
  IF elems = <<>> THEN <<>>
  ELSE (IF first THEN <<>> ELSE <<COMMA>>)
       \o (IF Head(elems) = Undefined THEN <<Null>> ELSE stringify(Head(elems)))
       \o stringifyElements(Tail(elems), FALSE)

\* JSON.stringify(value) for a value in heap h
JSONstringify(h, v) == stringify(Tree(h, v))

\* JSON.parse by recursive descent.  parseValue(toks, i) reads one value that
\* starts at token i: [ok |-> TRUE, v |-> the structure, i |-> the next
\* position], or [ok |-> FALSE] on a syntax error.
ParseFail == [ok |-> FALSE]
RECURSIVE parseValue(_, _), parseMembers(_, _, _, _), parseElements(_, _, _, _)
parseValue(toks, i) ==
  IF i > Len(toks) THEN ParseFail
  ELSE LET tok == toks[i] IN
       IF IsLiteral(tok) THEN [ok |-> TRUE, v |-> tok, i |-> i + 1]
       ELSE IF tok = LBRACE THEN parseMembers(toks, i + 1, <<>>, TRUE)
       ELSE IF tok = LBRACK THEN parseElements(toks, i + 1, <<>>, TRUE)
       ELSE ParseFail

parseMembers(toks, i, acc, first) ==
  IF i > Len(toks) THEN ParseFail
  ELSE IF first /\ toks[i] = RBRACE THEN [ok |-> TRUE, v |-> Obj(acc), i |-> i + 1]
  ELSE IF i + 1 > Len(toks) \/ ~IsLiteral(toks[i]) \/ toks[i].t # "string"
          \/ toks[i + 1] # COLON
    THEN ParseFail
  ELSE LET r == parseValue(toks, i + 2) IN
       IF ~r.ok \/ r.i > Len(toks) THEN ParseFail
       ELSE LET acc2 == (toks[i].s :> r.v) @@ acc IN
            IF toks[r.i] = COMMA THEN parseMembers(toks, r.i + 1, acc2, FALSE)
            ELSE IF toks[r.i] = RBRACE
              THEN [ok |-> TRUE, v |-> Obj(acc2), i |-> r.i + 1]
            ELSE ParseFail

parseElements(toks, i, acc, first) ==
  IF i > Len(toks) THEN ParseFail
  ELSE IF first /\ toks[i] = RBRACK THEN [ok |-> TRUE, v |-> Arr(acc), i |-> i + 1]
  ELSE LET r == parseValue(toks, i) IN
       IF ~r.ok \/ r.i > Len(toks) THEN ParseFail
       ELSE LET acc2 == Append(acc, r.v) IN
            IF toks[r.i] = COMMA THEN parseElements(toks, r.i + 1, acc2, FALSE)
            ELSE IF toks[r.i] = RBRACK
              THEN [ok |-> TRUE, v |-> Arr(acc2), i |-> r.i + 1]
            ELSE ParseFail

\* JSON.parse(text): the structure, or a SyntaxError
JSONparse(toks) ==
  LET r == parseValue(toks, 1) IN
  IF r.ok /\ r.i = Len(toks) + 1 THEN [ok |-> TRUE, v |-> r.v] ELSE ParseFail

(***************************************************************************)
(* lodash.merge (4.6.2) on plain objects, arrays and primitives.  The      *)
(* operators take a heap and return the heap after the in-place merge.     *)
(* The key loop of an array source runs over its indices; the sources are  *)
(* acyclic, so the cycle stack of the library never answers.               *)
(***************************************************************************)
\* isObject(value): an object or an array, not a primitive
isObject(v) == IsRef(v)

\* assignMergeValue(object, key, value): assigns unless the key already
\* holds the same value, and never overwrites a present key with undefined
assignMergeValue(h, obj, key, value) ==
  IF \/ value # Undefined /\ Get(h[obj.r], key) # value
     \/ value = Undefined /\ ~HasKey(h[obj.r], key)
  THEN [h EXCEPT ![obj.r] = Put(@, key, value)]
  ELSE h

RECURSIVE baseMerge(_, _, _), baseFor(_, _, _, _), baseMergeDeep(_, _, _, _)
\* baseMerge(object, source): merges every key of source into object
baseMerge(h, obj, src) ==
  IF obj = src THEN h ELSE baseFor(h, obj, src, KeysOf(h[src.r]))

baseFor(h, obj, src, keys) ==
  IF keys = <<>> THEN h
  ELSE LET key == Head(keys)
           srcValue == Get(h[src.r], key)
           h1 == IF isObject(srcValue) THEN baseMergeDeep(h, obj, src, key)
                 ELSE assignMergeValue(h, obj, key, srcValue)
       IN Then(h1, baseFor(h1, obj, src, Tail(keys)))

\* baseMergeDeep: an array source merges into the destination's array, or
\* into a new [] when the destination holds no array; a plain object source
\* merges into the destination's object (or array), or into a new {} when
\* the destination holds a primitive or nothing.  The source's own cells
\* are never assigned into the destination.
baseMergeDeep(h, obj, src, key) ==
  LET objValue == Get(h[obj.r], key)
      srcValue == Get(h[src.r], key)
      isArr == h[srcValue.r].t = "array"
      reuse == IF isArr THEN isObject(objValue) /\ h[objValue.r].t = "array"
               ELSE isObject(objValue)
      newValue == IF reuse THEN objValue ELSE Ref(Len(h) + 1)
      h1 == IF reuse THEN h
            ELSE Append(h, IF isArr THEN EmptyArr ELSE EmptyObj)
  IN assignMergeValue(baseMerge(h1, newValue, srcValue), obj, key, newValue)

\* merge(object, ...sources): the sources are merged into object in order
RECURSIVE merge(_, _, _)
merge(h, obj, sources) ==
  IF sources = <<>> THEN h
  ELSE merge(IF isObject(Head(sources)) THEN baseMerge(h, obj, Head(sources)) ELSE h,
             obj, Tail(sources))

(***************************************************************************)
(* CAMPAIGN_DEFAULTS, the defaults template of campaign creation           *)
(***************************************************************************)
CAMPAIGN_DEFAULTS ==
  Obj([general_information |-> Obj([
         minimum_quality |-> Num(1),
         minimum_quality_mode |-> Str("minimum"),
         frequency_cap |-> Obj([days |-> Num(1), hours |-> Num(0), minutes |-> Num(0)]),
         after_approval |-> Num(1),
         primespot |-> Str("all"),
         adult |-> Bool(FALSE),
         referrer |-> Num(0),
         ad_block |-> Str("all"),
         incognito |-> Str("all"),
         ad_type |-> Str("popunder"),
         ad_type_other |-> Bool(TRUE)]),
       budget |-> Obj([max_per_day |-> Num(0)]),
       categories |-> Obj([list |-> EmptyArr, include_subcategories |-> Bool(TRUE)]),
       countries |-> Obj([regions |-> EmptyArr]),
       society |-> Obj([language_mode |-> Str("any"), languages |-> EmptyArr,
                        populations |-> EmptyArr]),
       environment |-> Obj([os |-> EmptyArr, browser |-> EmptyArr,
                            resolutions |-> EmptyArr]),
       device |-> Obj([device |-> EmptyArr, request_as_desktop |-> Num(1)]),
       connections |-> Obj([conntype |-> EmptyArr, connspeed |-> EmptyArr,
                            internet_service_providers |-> EmptyArr]),
       website_targeting |-> Obj([type |-> Str("none")]),
       adscore |-> Obj([valid_traffic |-> Num(1), proxy_traffic |-> Num(0),
                        junk_traffic |-> Num(0), bot_traffic |-> Num(0),
                        compliance |-> Num(1), compliance_intelligence |-> Num(1)])])

(***************************************************************************)
(* Strings                                                                 *)
(***************************************************************************)
\* String.prototype.includes
Includes(str, sub) ==
  \E i \in 1..(Len(str) - Len(sub) + 1) : SubSeq(str, i, i + Len(sub) - 1) = sub

UpperCase == "ABCDEFGHIJKLMNOPQRSTUVWXYZ"
LowerCase == "abcdefghijklmnopqrstuvwxyz"

LowerChar(ch) ==
  IF \E i \in 1..Len(UpperCase) : SubSeq(UpperCase, i, i) = ch
  THEN LET i == CHOOSE j \in 1..Len(UpperCase) : SubSeq(UpperCase, j, j) = ch
       IN SubSeq(LowerCase, i, i)
  ELSE ch

\* String.prototype.toLowerCase
RECURSIVE toLowerCase(_)
toLowerCase(str) ==
  IF Len(str) = 0 THEN str
  ELSE LowerChar(SubSeq(str, 1, 1)) \o toLowerCase(SubSeq(str, 2, Len(str)))

UpperChar(ch) ==
  IF \E i \in 1..Len(LowerCase) : SubSeq(LowerCase, i, i) = ch
  THEN LET i == CHOOSE j \in 1..Len(LowerCase) : SubSeq(LowerCase, j, j) = ch
       IN SubSeq(UpperCase, i, i)
  ELSE ch

\* String.prototype.toUpperCase
RECURSIVE toUpperCase(_)
toUpperCase(str) ==
  IF Len(str) = 0 THEN str
  ELSE UpperChar(SubSeq(str, 1, 1)) \o toUpperCase(SubSeq(str, 2, Len(str)))

\* String.prototype.padEnd(length): spaces up to the length
RECURSIVE padEnd(_, _)
padEnd(str, length) ==
  IF Len(str) >= length THEN str ELSE padEnd(str \o " ", length)

\* `${value}` for a primitive
ToStr(v) ==
  CASE v.t = "number" -> ToString(v.n)
    [] v.t = "string" -> v.s
    [] v.t = "boolean" -> IF v.b THEN "true" ELSE "false"
    [] v.t = "null" -> "null"
    [] v.t = "undefined" -> "undefined"
    [] OTHER -> "[object Object]"

(***************************************************************************)
(* Loggers (utils/logger.ts).  A logger is a record; what it emits is      *)
(* appended to the log, a sequence of entries                              *)
(*   [sink, level, message, args].                                         *)
(***************************************************************************)
LogLevels == {"debug", "info", "warn", "error"}

LOG_LEVELS == [debug |-> 0, info |-> 1, warn |-> 2, error |-> 3]

ConsoleLogger(minLevel) == [kind |-> "ConsoleLogger", minLevel |-> minLevel]
SilentLogger == [kind |-> "SilentLogger"]
\* a logger supplied by the caller
CustomLogger == [kind |-> "custom"]
\* the console object of the runtime, which prints every level
console == [kind |-> "console"]
NoLogger == [kind |-> "none"]

\* a variant of shouldLog that lets only the levels above the minimum pass
shouldLogAbove(logger, level) == LOG_LEVELS[level] > LOG_LEVELS[logger.minLevel]

\* ConsoleLogger.shouldLog
shouldLog(logger, level) == LOG_LEVELS[level] >= LOG_LEVELS[logger.minLevel]

\* the width formatMessage pads the level to
LevelWidth == 5

\* ConsoleLogger.formatMessage: `[${timestamp}] ${levelUpper} [PopAds SDK] ${message}`
formatMessage(level, message, time) ==
  LET levelUpper == padEnd(toUpperCase(level), LevelWidth)
  IN "[" \o ToString(time) \o "] " \o levelUpper \o " [PopAds SDK] " \o message

\* logger.debug / info / warn / error (message, args): the entries it emits
Emit(logger, level, message, args, time) ==
  CASE logger.kind = "ConsoleLogger" ->
         IF shouldLog(logger, level)
         THEN <<[sink |-> "console", level |-> level,
                 message |-> formatMessage(level, message, time), args |-> args]>>
         ELSE <<>>
    [] logger.kind = "console" ->
         <<[sink |-> "console", level |-> level, message |-> message, args |-> args]>>
    [] logger.kind = "custom" ->
         <<[sink |-> "custom", level |-> level, message |-> message, args |-> args]>>
    [] OTHER -> <<>>

\* createLogger(customLogger, logLevel, debug)
createLoggerByLevelOnly(customLogger, logLevel, debug) ==
  IF customLogger # NoLogger THEN customLogger
  ELSE IF logLevel = "info" THEN SilentLogger
  ELSE ConsoleLogger(logLevel)

createLogger(customLogger, logLevel, debug) ==
  IF customLogger # NoLogger THEN customLogger
  ELSE IF ~debug /\ logLevel = "info" THEN SilentLogger
  ELSE ConsoleLogger(logLevel)

(***************************************************************************)
(* RequestLogger                                                           *)
(***************************************************************************)
REDACTED == Str("[REDACTED]")

sensitiveFields == {"password", "token", "key", "secret", "api_key"}

\* a variant of the test that matches a key only if it is one of the fields
IsSensitiveExact(key) == key \in sensitiveFields

\* the test of removeSensitiveFields on one key of an object
IsSensitive(key) ==
  \E field \in sensitiveFields : Includes(toLowerCase(key), field)

\* removeSensitiveFields(obj): redacts in place, recursively
RECURSIVE removeSensitiveFields(_, _), removeSensitiveEntries(_, _, _)
removeSensitiveFields(h, obj) ==
  IF ~IsRef(obj) THEN h ELSE removeSensitiveEntries(h, obj, KeysOf(h[obj.r]))

removeSensitiveEntries(h, obj, keys) ==
  IF keys = <<>> THEN h
  ELSE LET key == Head(keys)
           value == Get(h[obj.r], key)
           \* the keys of an array are its indices, which match no field
           h1 == IF h[obj.r].t = "object" /\ IsSensitive(key)
                   THEN [h EXCEPT ![obj.r] = Put(@, key, REDACTED)]
                 ELSE IF IsRef(value) THEN removeSensitiveFields(h, value)
                 ELSE h
       IN Then(h1, removeSensitiveEntries(h1, obj, Tail(keys)))

\* sanitizeRequestBody / sanitizeResponse: a deep copy through JSON, then
\* redacted; a primitive is returned as it is.  The result is the heap
\* and the sanitized value.
sanitize(h, value) ==
  IF ~IsRef(value) THEN [h |-> h, v |-> value]
  ELSE LET redacted(copy) == [h |-> removeSensitiveFields(copy.h, copy.v), v |-> copy.v]
       IN redacted(Build(h, JSONparse(JSONstringify(h, value)).v))

\* a variant of sanitizeRequestBody that redacts the body itself, not a copy
sanitizeRequestBodyInPlace(h, body) ==
  [h |-> removeSensitiveFields(h, body), v |-> body]

sanitizeRequestBody(h, body) == sanitize(h, body)

\* a variant of sanitizeResponse that redacts the response itself, not a copy
sanitizeResponseInPlace(h, response) ==
  [h |-> removeSensitiveFields(h, response), v |-> response]

sanitizeResponse(h, response) == sanitize(h, response)

\* truthiness of a value (`body ? ... : ...`)
Truthy(v) ==
  CASE v.t \in {"undefined", "null"} -> FALSE
    [] v.t = "boolean" -> v.b
    [] v.t = "number" -> v.n # 0
    [] v.t = "string" -> v.s # ""
    [] OTHER -> TRUE

(***************************************************************************)
(* URLs: new URL(`${baseUrl}${endpoint}`) and url.searchParams.set         *)
(***************************************************************************)
\* the position of the first occurrence of sub in str at or after from,
\* or 0 when there is none
IndexOf(str, sub, from) ==
  LET hits == {i \in from..(Len(str) - Len(sub) + 1) :
                 SubSeq(str, i, i + Len(sub) - 1) = sub}
  IN IF hits = {} THEN 0 ELSE CHOOSE i \in hits : \A j \in hits : i <= j

\* new URL(str) for an absolute URL `scheme://host[:port][/path][?query]`
URL(str) ==
  LET sep == IndexOf(str, "://", 1)
      start == sep + 3
      slash == IndexOf(str, "/", start)
      query == IndexOf(str, "?", start)
      hostEnd == IF slash # 0 THEN slash - 1
                 ELSE IF query # 0 THEN query - 1 ELSE Len(str)
      host == SubSeq(str, start, hostEnd)
      colon == IndexOf(host, ":", 1)
      pathEnd == IF query # 0 THEN query - 1 ELSE Len(str)
  IN [protocol |-> SubSeq(str, 1, sep),
      hostname |-> IF colon = 0 THEN host ELSE SubSeq(host, 1, colon - 1),
      port |-> IF colon = 0 THEN "" ELSE SubSeq(host, colon + 1, Len(host)),
      pathname |-> IF slash = 0 THEN "/" ELSE SubSeq(str, slash, pathEnd),
      search |-> IF query = 0 THEN "" ELSE SubSeq(str, query, Len(str))]

\* the application/x-www-form-urlencoded form of one character
EncodeChar(ch) ==
  CASE ch = " " -> "+"
    [] ch = "&" -> "%26"
    [] ch = "=" -> "%3D"
    [] ch = "/" -> "%2F"
    [] ch = "?" -> "%3F"
    [] OTHER -> ch

RECURSIVE EncodeParam(_)
EncodeParam(str) ==
  IF Len(str) = 0 THEN str
  ELSE EncodeChar(SubSeq(str, 1, 1)) \o EncodeParam(SubSeq(str, 2, Len(str)))

\* a variant that appends the value to the path instead of the query
searchParamsSetInPath(url, name, value) ==
  [url EXCEPT !.pathname = url.pathname \o "/" \o EncodeParam(value)]

\* url.searchParams.set(name, value) on a URL without that parameter
searchParamsSet(url, name, value) ==
  [url EXCEPT !.search = (IF url.search = "" THEN "?" ELSE url.search \o "&")
                         \o name \o "=" \o EncodeParam(value)]

(***************************************************************************)
(* SDKError and the promise of one call                                    *)
(***************************************************************************)
\* new SDKError(status, messages)
SDKError(status, messages) ==
  [t |-> "SDKError", name |-> "SDKError",
   message |-> "API request failed with status " \o ToStr(status),
   status |-> status, messages |-> messages]

\* an error thrown by the runtime (JSON.parse, a property read of null)
RuntimeError(name, message) == [t |-> "Error", name |-> name, message |-> message]

\* `${error}`
ErrorToString(error) == error.name \o ": " \o error.message

PendingPromise == [state |-> "pending", value |-> Undefined]

\* resolve(value) and reject(reason): only the first call settles
resolve(promise, value) ==
  IF promise.state = "pending" THEN [state |-> "fulfilled", value |-> value]
  ELSE promise

\* a reject that settles again: the fault a promise excludes
rejectOverwriting(promise, reason) == [state |-> "rejected", value |-> reason]

reject(promise, reason) ==
  IF promise.state = "pending" THEN [state |-> "rejected", value |-> reason]
  ELSE promise

\* a variant of isErrorResponse that tests for the status 'error'
isErrorResponseStatusError(h, response) ==
  /\ IsRef(response)
  /\ h[response.r].t = "object"
  /\ Get(h[response.r], "status") = Str("error")

\* isErrorResponse(response), for an object, an array or a primitive other
\* than null (reading .status of null throws)
isErrorResponse(h, response) ==
  /\ IsRef(response)
  /\ h[response.r].t = "object"
  /\ Get(h[response.r], "status") = Str("failed")

(***************************************************************************)
(* RequestLogger.logRequestStart and logRequestComplete.  Each returns the *)
(* heap after the call and the entries emitted.  The sanitized copy is     *)
(* reachable only from the entry, so its cells are dropped from the heap   *)
(* once the entry holds its structure.                                     *)
(***************************************************************************)
\* the glyphs that open the message of a start, success and failure event
ARROW == "->"
CHECK == "ok"
CROSS == "XX"

logRequestStart(h, logger, metadata, body, time) ==
  LET message == ARROW \o " " \o metadata.method \o " " \o metadata.endpoint
                 \o " [" \o metadata.requestId \o "]"
      \* s: the heap and the value of `body ? this.sanitizeRequestBody(body) : undefined`
      debug(s) ==
        [h |-> SubSeq(s.h, 1, Len(h)),
         out |-> Emit(logger, "debug", message,
                      Obj([timestamp |-> Num(metadata.timestamp),
                           body |-> Tree(s.h, s.v)]), time)]
  IN debug(IF Truthy(body) THEN sanitizeRequestBody(h, body)
           ELSE [h |-> h, v |-> Undefined])

logRequestComplete(h, logger, metadata, response, error, time) ==
  LET duration == IF Truthy(metadata.duration) THEN metadata.duration ELSE Num(0)
      status == IF Truthy(metadata.status) THEN metadata.status ELSE Num(0)
      size == IF Truthy(metadata.size) THEN "(" \o ToStr(metadata.size) \o " bytes)" ELSE ""
      tail == " " \o metadata.method \o " " \o metadata.endpoint
              \o " [" \o metadata.requestId \o "] - " \o ToStr(duration) \o "ms - "
              \o ToStr(status) \o " " \o size
  IN IF error # Undefined
     THEN [h |-> h,
           out |-> Emit(logger, "error", CROSS \o tail,
                        Obj([error |-> Str(error.message), stack |-> Str(error.name)]),
                        time)]
     \* s: the heap and the value of
     \* `response ? this.sanitizeResponse(response) : undefined`
     ELSE LET debug(s) ==
                [h |-> SubSeq(s.h, 1, Len(h)),
                 out |-> Emit(logger, "debug", CHECK \o tail,
                              Obj([response |-> Tree(s.h, s.v)]), time)]
          IN debug(IF Truthy(response) THEN sanitizeResponse(h, response)
                   ELSE [h |-> h, v |-> Undefined])

(***************************************************************************)
(* Client options                                                          *)
(***************************************************************************)
DefaultBaseUrl == "https://www.popads.net/apiv2"
DefaultTimeout == 30000

\* a variant that reads debug only
OptFlagDebugOnly(options, name) ==
  name = "debug" /\ name \in DOMAIN options /\ options[name]

\* a variant in which a flag that is not given counts as set
OptFlagDefaultOn(options, name) == name \notin DOMAIN options \/ options[name]

\* `options?.name` for a boolean option: absent reads as falsy
OptFlag(options, name) == name \in DOMAIN options /\ options[name]

\* `options.logger || console`
OptLogger(options) ==
  IF "logger" \in DOMAIN options /\ options.logger # NoLogger THEN options.logger
  ELSE console

\* `options?.baseUrl || 'https://www.popads.net/apiv2'`
OptBaseUrl(options) ==
  IF "baseUrl" \in DOMAIN options /\ options.baseUrl # "" THEN options.baseUrl
  ELSE DefaultBaseUrl

\* `options?.timeout || 30000`
OptTimeout(options) ==
  IF "timeout" \in DOMAIN options /\ options.timeout # 0 THEN options.timeout
  ELSE DefaultTimeout

(***************************************************************************)
(* makeRequest: the executor of the promise.  The state of one call is a   *)
(* record: the arguments, the locals of the closure (metadata,             *)
(* requestLogger, startTime, responseData), the request handed to https,   *)
(* what the network still holds for it, and the promise.                   *)
(*   st = "idle"       no call is in progress                              *)
(*        "open"       the request is issued and its socket is open        *)
(*        "destroyed"  req.destroy() was called before any response        *)
(*        "closed"     the request is finished: no event can follow        *)
(*        "merged"     the default merge alone has run (MergeSpec)         *)
(***************************************************************************)
Text(toks) == [t |-> "text", x |-> toks]

IdleCall ==
  [st |-> "idle", op |-> "", arg |-> Undefined, body |-> Undefined,
   startTime |-> 0,
   metadata |-> <<>>, requestLogger |-> NoLogger, data |-> Null,
   requestOptions |-> <<>>, written |-> <<>>, ended |-> FALSE,
   res |-> "none", incoming |-> <<>>, responseData |-> <<>>,
   promise |-> PendingPromise]

\* The result is the heap, the entries logged, the number of requests
\* handed to https and the state of the call once the executor has returned.  op names the client operation and arg
\* the object its caller passed, both kept for reference only.
makeRequest(h, key, endpoint, method, body, options, requestId, time, op, arg) ==
  LET metadata == [requestId |-> requestId, method |-> method, endpoint |-> endpoint,
                   timestamp |-> time, status |-> Undefined, size |-> Undefined,
                   duration |-> Undefined]
      requestLogger == IF OptFlag(options, "debug") \/ OptFlag(options, "enableInterception")
                       THEN OptLogger(options) ELSE NoLogger
      requestOptions(url) == [hostname |-> url.hostname,
                              path |-> url.pathname \o url.search,
                              method |-> method,
                              headers |-> [ContentType |-> "application/json",
                                           UserAgent |-> "PopAds-SDK/1.5.0"],
                              timeout |-> OptTimeout(options)]
      \* started: the heap and the entries once logRequestStart has run;
      \* data: `body ? JSON.stringify(body) : null`
      request(started, data) ==
        [h |-> started.h,
         out |-> started.out,
         \* https.request is called once
         requests |-> 1,
         call |-> [st |-> "open", op |-> op, arg |-> arg, body |-> body,
                   startTime |-> time, metadata |-> metadata,
                   \* the entries the executor had emitted when it called
                   \* https.request
                   emittedBefore |-> Len(started.out),
                   \* the completion entries the handler that settled the
                   \* promise had emitted when it called resolve or reject
                   loggedBefore |-> 0,
                   \* the options the executor closes over
                   options |-> options,
                   requestLogger |-> requestLogger, data |-> data,
                   requestOptions |->
                     requestOptions(searchParamsSet(URL(OptBaseUrl(options) \o endpoint),
                                                    "key", key)),
                   written |-> IF data # Null THEN <<data>> ELSE <<>>,
                   ended |-> TRUE,
                   res |-> "none", incoming |-> <<>>, responseData |-> <<>>,
                   promise |-> PendingPromise]]
      executor(started) ==
        request(started,
                IF Truthy(body) THEN Text(JSONstringify(started.h, body)) ELSE Null)
      \* what logRequestStart throws leaves the executor, and the promise is
      \* rejected with it: no request is made
      thrown(error) ==
        [h |-> h, out |-> <<>>, requests |-> 0,
         call |-> [request([h |-> h, out |-> <<>>], Null).call
                     EXCEPT !.st = "closed", !.ended = FALSE, !.requestOptions = <<>>,
                            !.promise = reject(PendingPromise, error)]]
  IN IF requestLogger # NoLogger /\ "throwsAt" \in DOMAIN requestLogger
        /\ requestLogger.throwsAt = "body"
     THEN thrown(requestLogger.thrown)
     ELSE executor(IF requestLogger # NoLogger
                   THEN logRequestStart(h, requestLogger, metadata, body, time)
                   ELSE [h |-> h, out |-> <<>>])

(***************************************************************************)
(* The handlers of makeRequest.  Each takes the heap and the state of the  *)
(* call and returns the heap, the entries logged, the number of requests   *)
(* it handed to https and the new state of the call.                       *)
(***************************************************************************)
\* parseInt(str, 10) of a string of decimal digits
Digits == "0123456789"
DigitValue(ch) == (CHOOSE i \in 1..10 : SubSeq(Digits, i, i) = ch) - 1
RECURSIVE parseInt(_)
parseInt(str) ==
  IF Len(str) = 0 THEN 0
  ELSE 10 * parseInt(SubSeq(str, 1, Len(str) - 1))
       + DigitValue(SubSeq(str, Len(str), Len(str)))

\* the callback of https.request: the response has begun
onResponse(c, statusCode, contentLength) ==
  [c EXCEPT !.res = "open",
            !.metadata.status = Num(statusCode),
            !.metadata.size = Num(parseInt(IF contentLength # "" THEN contentLength
                                           ELSE "0"))]

\* res.on('data')
onData(c, chunk) == [c EXCEPT !.responseData = @ \o chunk]

\* A logger supplied by the caller, one of whose calls throws: the call that
\* is handed this member (the body of a request at its start, the response
\* of a completion, the error of a failed completion).
FailingLogger(member) ==
  [kind |-> "custom", throwsAt |-> member, thrown |-> RuntimeError("Error", "logger failed")]

\* `if (requestLogger) requestLogger.logRequestComplete(metadata, response, error)`
\* threw: the logger threw, and nothing was logged
logIfActive(h, c, metadata, response, error, time) ==
  IF c.requestLogger = NoLogger THEN [h |-> h, out |-> <<>>, threw |-> FALSE]
  ELSE IF "throwsAt" \in DOMAIN c.requestLogger
          /\ c.requestLogger.throwsAt = (IF error # Undefined THEN "error" ELSE "response")
    THEN [h |-> h, out |-> <<>>, threw |-> TRUE]
  ELSE [threw |-> FALSE]
         @@ logRequestComplete(h, c.requestLogger, metadata, response, error, time)

\* a variant of the catch branch that rejects with what was thrown
onEndCatchRethrow(h, c, metadata, thrown, time) ==
  LET rejected(lg) == [h |-> lg.h, out |-> lg.out, promise |-> reject(c.promise, thrown),
                      loggedBefore |-> Len(lg.out)]
  IN rejected(logIfActive(h, c, metadata, Undefined, thrown, time))

\* the catch branch of res.on('end'): what was thrown becomes an SDKError of
\* status 500, which is logged and rejects the promise
onEndCatch(h, c, metadata, thrown, time) ==
  LET m == Alloc(h, Obj([error |-> Str("Invalid JSON response: " \o ErrorToString(thrown))]))
      parseError == SDKError(Num(500), m.v)
      rejected(lg) ==
        \* what the logger throws here leaves the handler: reject is not reached
        IF lg.threw
        THEN [h |-> h, out |-> <<>>, promise |-> c.promise, loggedBefore |-> c.loggedBefore]
        ELSE [h |-> lg.h, out |-> lg.out, promise |-> reject(c.promise, parseError),
              loggedBefore |-> Len(lg.out)]
  IN rejected(logIfActive(m.h, c, metadata, Undefined, parseError, time))

\* a variant of the try branch that treats a status code of 400 or more as
\* a failure, whatever the body says
onEndParsedByStatus(h, c, metadata, parsedData, time) ==
  IF isErrorResponse(h, parsedData) \/ metadata.status.n >= 400
  THEN LET error == SDKError(metadata.status, Undefined)
           rejected(lg) == [h |-> lg.h, out |-> lg.out, promise |-> reject(c.promise, error),
                           loggedBefore |-> Len(lg.out)]
       IN rejected(logIfActive(h, c, metadata, Undefined, error, time))
  ELSE LET resolved(lg) == [h |-> lg.h, out |-> lg.out,
                            promise |-> resolve(c.promise, parsedData),
                            loggedBefore |-> Len(lg.out)]
       IN resolved(logIfActive(h, c, metadata, parsedData, Undefined, time))

\* the try branch of res.on('end') once JSON.parse has returned parsedData
\* (what the logger throws inside the try is caught by its catch branch)
onEndParsed(h, c, metadata, parsedData, time) ==
  IF isErrorResponse(h, parsedData)
  THEN LET error == SDKError(Get(h[parsedData.r], "code"), Get(h[parsedData.r], "messages"))
           rejected(lg) ==
             IF lg.threw THEN onEndCatch(h, c, metadata, c.requestLogger.thrown, time)
             ELSE [h |-> lg.h, out |-> lg.out, promise |-> reject(c.promise, error),
                   loggedBefore |-> Len(lg.out)]
       IN rejected(logIfActive(h, c, metadata, Undefined, error, time))
  ELSE LET resolved(lg) ==
             IF lg.threw THEN onEndCatch(h, c, metadata, c.requestLogger.thrown, time)
             ELSE [h |-> lg.h, out |-> lg.out,
                   promise |-> resolve(c.promise, parsedData),
                   loggedBefore |-> Len(lg.out)]
       IN resolved(logIfActive(h, c, metadata, parsedData, Undefined, time))

\* res.on('end')
onEnd(h, c, time) ==
  LET metadata == [c.metadata EXCEPT !.duration = Num(time - c.startTime)]
      \* p: the heap and the value JSON.parse has returned
      try(p) == onEndParsed(p.h, c, metadata, p.v, time)
      \* parsed: the outcome of JSON.parse(responseData)
      handle(parsed) ==
        IF ~parsed.ok
          THEN onEndCatch(h, c, metadata,
                          RuntimeError("SyntaxError", "Unexpected token in JSON"), time)
        ELSE IF parsed.v = Null
          \* isErrorResponse reads .status of null
          THEN onEndCatch(h, c, metadata,
                          RuntimeError("TypeError", "Cannot read properties of null"), time)
        ELSE try(Build(h, parsed.v))
      \* r: the heap, the entries and the promise once the handler has returned
      ended(r) ==
        [h |-> r.h, out |-> r.out, requests |-> 0,
         call |-> [c EXCEPT !.metadata = metadata, !.promise = r.promise,
                            !.loggedBefore = IF c.promise.state = "pending"
                                             THEN r.loggedBefore ELSE @,
                            !.res = "ended", !.st = "closed"]]
  IN ended(handle(JSONparse(c.responseData)))

\* a variant of req.on('error') that issues the request again and leaves the
\* promise pending
onErrorRetry(h, c, time, errorMessage) ==
  [h |-> h, out |-> <<>>, requests |-> 1, call |-> c]

\* a variant of req.on('error') that rejects first and logs afterwards
onErrorRejectFirst(h, c, time, errorMessage) ==
  LET metadata == [c.metadata EXCEPT !.duration = Num(time - c.startTime)]
      m == Alloc(h, Obj([error |-> Str(errorMessage)]))
      sdkError == SDKError(Num(500), m.v)
      rejected(lg) ==
        [h |-> lg.h, out |-> lg.out, requests |-> 0,
         call |-> [c EXCEPT !.metadata = metadata,
                            !.promise = reject(c.promise, sdkError),
                            !.loggedBefore = 0,
                            !.st = "closed"]]
  IN rejected(logIfActive(m.h, c, metadata, Undefined, sdkError, time))

\* req.on('error')
onError(h, c, time, errorMessage) ==
  LET metadata == [c.metadata EXCEPT !.duration = Num(time - c.startTime)]
      m == Alloc(h, Obj([error |-> Str(errorMessage)]))
      sdkError == SDKError(Num(500), m.v)
      rejected(lg) ==
        \* what the logger throws leaves the handler: reject is not reached
        IF lg.threw
        THEN [h |-> h, out |-> <<>>, requests |-> 0,
              call |-> [c EXCEPT !.metadata = metadata, !.st = "closed"]]
        ELSE
        [h |-> lg.h, out |-> lg.out, requests |-> 0,
         call |-> [c EXCEPT !.metadata = metadata,
                            !.promise = reject(c.promise, sdkError),
                            !.loggedBefore = IF c.promise.state = "pending"
                                             THEN Len(lg.out) ELSE @,
                            !.st = "closed"]]
  IN rejected(logIfActive(m.h, c, metadata, Undefined, sdkError, time))

\* a variant of req.on('timeout') that rejects and leaves the request open
onTimeoutNoDestroy(h, c, time) ==
  LET metadata == [c.metadata EXCEPT !.duration = Num(time - c.startTime)]
      m == Alloc(h, Obj([error |-> Str("Request timeout")]))
      timeoutError == SDKError(Num(408), m.v)
      rejected(lg) ==
        [h |-> lg.h, out |-> lg.out, requests |-> 0,
         call |-> [c EXCEPT !.metadata = metadata,
                            !.promise = reject(c.promise, timeoutError),
                            !.loggedBefore = IF c.promise.state = "pending"
                                             THEN Len(lg.out) ELSE @]]
  IN rejected(logIfActive(m.h, c, metadata, Undefined, timeoutError, time))

\* req.on('timeout'): logs, destroys the request, rejects
onTimeout(h, c, time) ==
  LET metadata == [c.metadata EXCEPT !.duration = Num(time - c.startTime)]
      m == Alloc(h, Obj([error |-> Str("Request timeout")]))
      timeoutError == SDKError(Num(408), m.v)
      rejected(lg) ==
        \* what the logger throws leaves the handler: neither req.destroy() nor
        \* reject is reached
        IF lg.threw
        THEN [h |-> h, out |-> <<>>, requests |-> 0,
              call |-> [c EXCEPT !.metadata = metadata]]
        ELSE
        [h |-> lg.h, out |-> lg.out, requests |-> 0,
         call |-> [c EXCEPT !.metadata = metadata,
                            !.promise = reject(c.promise, timeoutError),
                            !.loggedBefore = IF c.promise.state = "pending"
                                             THEN Len(lg.out) ELSE @,
                            \* req.destroy(): a request that has no response yet
                            \* may still report the reset as an 'error' event
                            !.st = IF c.res = "none" THEN "destroyed" ELSE "closed"]]
  IN rejected(logIfActive(m.h, c, metadata, Undefined, timeoutError, time))

(***************************************************************************)
(* Bounds and inputs                                                       *)
(***************************************************************************)
\* the last instant of the clock
MaxTime == 1
\* the largest number of calls of setDebugMode on one client
MaxToggles == 1
\* the largest number of chunks a response body arrives in
MaxChunks == 2

ApiKey == "test-api-key"

RequestIds == {"9f3a", "07c1"}

CampaignIds == {123}

FeedIds == {77}

\* the options a FeedClient hands to makeRequest: none
NoOptions == <<>>

\* what a caller passes to new Client(apiKey, options)
ClientOptionSets ==
  { <<>>,
    [debug |-> TRUE],
    [enableInterception |-> TRUE, logger |-> CustomLogger, timeout |-> 5000,
     baseUrl |-> "https://sandbox.popads.test/v2"] }

\* creation payloads of type CampaignCreateRequest
CampaignPayloads ==
  { Obj([general_information |-> Obj([name |-> Str("X")]),
         budget |-> Obj([max_bid |-> Num(1), budget |-> Num(10)])]),
    Obj([general_information |-> Obj([name |-> Str("Y"), urls |-> Arr(<<Str("https://example.com")>>),
                                      adult |-> Bool(TRUE),
                                      frequency_cap |-> Obj([days |-> Num(2)])]),
         budget |-> Obj([max_bid |-> Num(2), budget |-> Num(20), max_per_day |-> Num(5)]),
         categories |-> Obj([list |-> Arr(<<Num(7), Num(9)>>)]),
         countries |-> Obj([codes |-> Arr(<<Str("US")>>), regions |-> EmptyArr])]) }

\* update payloads of type CampaignUpdateRequest
UpdatePayloads ==
  { Obj([general_information |-> Obj([name |-> Str("Z")]),
         api_key |-> Str("secret123")]) }

\* payloads of type FeedCreateRequest and FeedUpdateRequest
FeedPayloads ==
  { Obj([general_information |-> Obj([name |-> Str("RTB Feed")]),
         open_rtb |-> Obj([auth_token |-> Str("rtb-secret")])]) }

\* the structures a server answers with
SuccessBody ==
  Obj([status |-> Str("success"), code |-> Num(200), records |-> Num(1),
       data |-> Obj([campaign |-> Obj([id |-> Num(123)])])])

SuccessBodyWithToken ==
  Obj([status |-> Str("success"), code |-> Num(200), records |-> Num(1),
       data |-> Obj([campaign |-> Obj([id |-> Num(123), tracking_token |-> Str("tt")])])])

FailedBody ==
  Obj([status |-> Str("failed"), code |-> Num(404),
       messages |-> Obj([id |-> Arr(<<Str("not found")>>)])])

\* a failure envelope that lacks the code and the messages
FailedBodyBare == Obj([status |-> Str("failed")])

\* the texts a response body can be: the JSON text of an envelope, a JSON
\* text that is no envelope, a truncated text, an empty body
WireBodies ==
  { stringify(SuccessBody), stringify(SuccessBodyWithToken), stringify(FailedBody),
    stringify(FailedBodyBare), <<Null>>,
    SubSeq(stringify(SuccessBody), 1, 6), <<>> }

\* the status line and the content-length header of a response: a 200 that
\* declares its length, a 404 that does not
ResponseHeads ==
  { [statusCode |-> 200, declaresLength |-> TRUE],
    [statusCode |-> 404, declaresLength |-> FALSE] }

ErrorMessages == {"socket hang up", "connect ECONNREFUSED"}

\* a text cut into n chunks of equal length, the last one shorter
RECURSIVE ChunksOf(_, _)
ChunksOf(text, size) ==
  IF Len(text) = 0 THEN <<>>
  ELSE IF Len(text) <= size THEN <<text>>
  ELSE <<SubSeq(text, 1, size)>> \o ChunksOf(SubSeq(text, size + 1, Len(text)), size)

Chunkings(text) ==
  {ChunksOf(text, (Len(text) + n - 1) \div n) : n \in 1..MaxChunks}

(***************************************************************************)
(* State                                                                   *)
(***************************************************************************)
VARIABLES
  heap,           \* the objects and arrays of the program
  clientOptions,  \* PopAdsClient.clientOptions, shared with the sub-clients
  clientLogger,   \* PopAdsClient.logger
  call,           \* the call in progress
  log,            \* the entries logged since the caller last looked
  now,            \* the clock
  requests,       \* requests handed to https for the call in progress
  outcomes,       \* times the promise of the call in progress was settled
  defaults,       \* the structure CAMPAIGN_DEFAULTS was defined with
  mutations,      \* writes the holder of a merged payload has made to it
  toggles,        \* calls of setDebugMode so far
  invoked,        \* the calls made to the methods of a logger on its own
  held,           \* the object getConfig returned to the caller, if any
  other           \* a second call in progress at the same time

\* the caller holds no configuration object
NotHeld == [alias |-> FALSE, v |-> <<>>, writes |-> 0]

vars == <<heap, clientOptions, clientLogger, call, log, now, requests, outcomes,
          defaults, mutations, toggles, invoked, held, other>>

\* CAMPAIGN_DEFAULTS is the first object of the heap
DefaultsRef == Ref(1)
DefaultsHeap == Build(<<>>, CAMPAIGN_DEFAULTS).h

\* a variant that logs the API key next to the options
OptionsTreeWithKey(options) ==
  Obj([k \in DOMAIN options \cup {"apiKey"} |->
         CASE k = "apiKey" -> Str(ApiKey)
           [] k \in {"debug", "enableInterception"} -> Bool(options[k])
           [] k = "timeout" -> Num(options[k])
           [] k = "logger" -> Str("[Console Logger]")
           [] OTHER -> Str(options[k])])

\* the options of a client as a structure, as the constructor logs them
OptionsTree(options) ==
  Obj([k \in DOMAIN options |->
         CASE k \in {"debug", "enableInterception"} -> Bool(options[k])
           [] k = "timeout" -> Num(options[k])
           [] k = "logger" -> Str(IF options[k] # NoLogger THEN "[Custom Logger]"
                                  ELSE "[Console Logger]")
           [] OTHER -> Str(options[k])])

\* new PopAdsClient(apiKey, options)
PopAdsClient(options) ==
  LET opts == options @@ [debug |-> FALSE, logLevel |-> "info", timeout |-> DefaultTimeout,
                          enableInterception |-> FALSE]
      custom == IF "logger" \in DOMAIN opts THEN opts.logger ELSE NoLogger
      logger == createLogger(custom, opts.logLevel, opts.debug)
  IN [clientOptions |-> opts,
      logger |-> logger,
      out |-> IF opts.debug
              THEN Emit(logger, "info", "PopAds SDK client initialized",
                        Obj([version |-> Str("1.5.0"),
                             options |-> OptionsTree(opts @@ [logger |-> NoLogger])]), 0)
              ELSE <<>>]

Init ==
  \E options \in ClientOptionSets :
    LET client == PopAdsClient(options) IN
    /\ heap = DefaultsHeap
    /\ clientOptions = client.clientOptions
    /\ clientLogger = client.logger
    /\ log = client.out
    /\ call = IdleCall
    /\ now = 0
    /\ requests = 0
    /\ outcomes = 0
    /\ defaults = CAMPAIGN_DEFAULTS
    /\ mutations = 0
    /\ toggles = 0
    /\ invoked = <<>>
    /\ held = NotHeld
    /\ other = IdleCall

(***************************************************************************)
(* The client operations.  An async method runs makeRequest's executor     *)
(* before it returns, so an operation is one step.                         *)
(***************************************************************************)
\* the step of an operation or a handler with result r
Step(r) ==
  /\ heap' = r.h
  /\ log' = log \o r.out
  /\ call' = r.call
  /\ requests' = requests + r.requests
  /\ outcomes' = outcomes + (IF call.promise.state = "pending"
                                /\ r.call.promise.state # "pending" THEN 1 ELSE 0)

CanCall == call.st = "idle"

\* the step of a client operation with result r.  The call keeps, for
\* reference only, what the configuration of the client held when it
\* started.
Start(r) ==
  Step([r EXCEPT !.call = [config |-> [debug |-> clientOptions.debug,
                                       enableInterception |->
                                         clientOptions.enableInterception]] @@ @])

\* CampaignClient.getCampaign(campaignId)
getCampaign ==
  /\ CanCall
  /\ \E campaignId \in CampaignIds, requestId \in RequestIds :
       Start(makeRequest(heap, ApiKey, "/campaign/details/" \o ToString(campaignId),
                        "GET", Undefined, clientOptions, requestId, now,
                        "getCampaign", Undefined))
  /\ UNCHANGED <<clientOptions, clientLogger, now, defaults, mutations, toggles, invoked, held, other>>

\* a variant that copies the top-level members only, as
\* Object.assign({}, CAMPAIGN_DEFAULTS, data) does
mergeDefaultsShallow(h, data) ==
  [h |-> Append(h, Obj(h[data.r].o @@ h[DefaultsRef.r].o)), v |-> Ref(Len(h) + 1)]

\* a variant that passes the sources in the other order:
\* merge({}, data, CAMPAIGN_DEFAULTS)
mergeDefaultsSwapped(h, data) ==
  LET target == Ref(Len(h) + 1)
  IN [h |-> merge(Append(h, EmptyObj), target, <<data, DefaultsRef>>), v |-> target]

\* a variant that merges into the template: merge(CAMPAIGN_DEFAULTS, data)
mergeIntoDefaults(h, data) ==
  [h |-> merge(h, DefaultsRef, <<data>>), v |-> DefaultsRef]

\* merge({}, CAMPAIGN_DEFAULTS, data): the heap and the merged object
mergeDefaults(h, data) ==
  LET target == Ref(Len(h) + 1)
  IN [h |-> merge(Append(h, EmptyObj), target, <<DefaultsRef, data>>), v |-> target]

\* CampaignClient.createCampaign(data)
createCampaign ==
  /\ CanCall
  /\ \E payload \in CampaignPayloads, requestId \in RequestIds :
       LET data == Build(heap, payload)
           requestData == mergeDefaults(data.h, data.v)
       IN Start(makeRequest(requestData.h, ApiKey, "/campaign/add", "POST", requestData.v,
                           clientOptions, requestId, now, "createCampaign", data.v))
  /\ UNCHANGED <<clientOptions, clientLogger, now, defaults, mutations, toggles, invoked, held, other>>

\* a variant of updateCampaign that merges the caller's object over
\* CAMPAIGN_DEFAULTS as createCampaign does
updateCampaignMerging ==
  /\ CanCall
  /\ \E campaignId \in CampaignIds, payload \in UpdatePayloads, requestId \in RequestIds :
       LET data == Build(heap, payload)
           requestData == mergeDefaults(data.h, data.v)
       IN Start(makeRequest(requestData.h, ApiKey, "/campaign/update/" \o ToString(campaignId),
                           "PUT", requestData.v, clientOptions, requestId, now,
                           "updateCampaign", data.v))
  /\ UNCHANGED <<clientOptions, clientLogger, now, defaults, mutations, toggles, invoked, held, other>>

\* CampaignClient.updateCampaign(campaignId, data)
updateCampaign ==
  /\ CanCall
  /\ \E campaignId \in CampaignIds, payload \in UpdatePayloads, requestId \in RequestIds :
       LET data == Build(heap, payload)
       IN Start(makeRequest(data.h, ApiKey, "/campaign/update/" \o ToString(campaignId),
                           "PUT", data.v, clientOptions, requestId, now,
                           "updateCampaign", data.v))
  /\ UNCHANGED <<clientOptions, clientLogger, now, defaults, mutations, toggles, invoked, held, other>>

\* CampaignClient.patchCampaign(campaignId, data)
patchCampaign ==
  /\ CanCall
  /\ \E campaignId \in CampaignIds, payload \in UpdatePayloads, requestId \in RequestIds :
       LET data == Build(heap, payload)
       IN Start(makeRequest(data.h, ApiKey, "/campaign/update/" \o ToString(campaignId),
                           "PATCH", data.v, clientOptions, requestId, now,
                           "patchCampaign", data.v))
  /\ UNCHANGED <<clientOptions, clientLogger, now, defaults, mutations, toggles, invoked, held, other>>

\* FeedClient.getFeed(feedId)
getFeed ==
  /\ CanCall
  /\ \E feedId \in FeedIds, requestId \in RequestIds :
       Start(makeRequest(heap, ApiKey, "/feed/details/" \o ToString(feedId),
                         "GET", Undefined, NoOptions, requestId, now,
                         "getFeed", Undefined))
  /\ UNCHANGED <<clientOptions, clientLogger, now, defaults, mutations, toggles, invoked, held, other>>

\* a variant of createFeed that posts to an endpoint of the feed resource
createFeedToFeedAdd ==
  /\ CanCall
  /\ \E payload \in FeedPayloads, requestId \in RequestIds :
       LET request(data) ==
             makeRequest(data.h, ApiKey, "/feed/add", "POST", data.v,
                         NoOptions, requestId, now, "createFeed", data.v)
       IN Start(request(Build(heap, payload)))
  /\ UNCHANGED <<clientOptions, clientLogger, now, defaults, mutations, toggles, invoked, held, other>>

\* FeedClient.createFeed(data)
createFeed ==
  /\ CanCall
  /\ \E payload \in FeedPayloads, requestId \in RequestIds :
       LET request(data) ==
             makeRequest(data.h, ApiKey, "/campaign/add", "POST", data.v,
                         NoOptions, requestId, now, "createFeed", data.v)
       IN Start(request(Build(heap, payload)))
  /\ UNCHANGED <<clientOptions, clientLogger, now, defaults, mutations, toggles, invoked, held, other>>

\* FeedClient.updateFeed(feedId, data)
updateFeed ==
  /\ CanCall
  /\ \E feedId \in FeedIds, payload \in FeedPayloads, requestId \in RequestIds :
       LET request(data) ==
             makeRequest(data.h, ApiKey, "/feed/update/" \o ToString(feedId), "PUT",
                         data.v, NoOptions, requestId, now, "updateFeed", data.v)
       IN Start(request(Build(heap, payload)))
  /\ UNCHANGED <<clientOptions, clientLogger, now, defaults, mutations, toggles, invoked, held, other>>

\* OptionsClient.getCountries(), one of the enumeration operations; all of
\* them have this form
getCountries ==
  /\ CanCall
  /\ \E requestId \in RequestIds :
       Start(makeRequest(heap, ApiKey, "/options/list/countries", "GET", Undefined,
                         NoOptions, requestId, now, "getCountries", Undefined))
  /\ UNCHANGED <<clientOptions, clientLogger, now, defaults, mutations, toggles, invoked, held, other>>

\* a variant of setDebugMode whose toggle reaches the call in flight: the
\* call's handlers look the logger up when they run
setDebugModeInFlight(enabled) ==
  /\ toggles < MaxToggles
  /\ clientOptions' = [clientOptions EXCEPT !.debug = enabled]
  /\ log' = log \o (IF enabled
                    THEN Emit(clientLogger, "info", "Debug mode enabled", Undefined, now)
                    ELSE <<>>)
  /\ toggles' = toggles + 1
  /\ call' = IF call.st = "idle" THEN call
             ELSE [call EXCEPT !.requestLogger =
                     IF enabled \/ OptFlag(clientOptions, "enableInterception")
                     THEN OptLogger(clientOptions) ELSE NoLogger]
  /\ UNCHANGED <<heap, clientLogger, now, requests, outcomes, defaults, mutations,
                 invoked, held, other>>

\* PopAdsClient.setDebugMode(enabled)
setDebugMode(enabled) ==
  /\ toggles < MaxToggles
  /\ clientOptions' = [clientOptions EXCEPT !.debug = enabled]
  /\ log' = log \o (IF enabled
                    THEN Emit(clientLogger, "info", "Debug mode enabled", Undefined, now)
                    ELSE <<>>)
  /\ toggles' = toggles + 1
  /\ UNCHANGED <<heap, clientLogger, call, now, requests, outcomes, defaults, mutations,
                 invoked, held, other>>

(***************************************************************************)
(* The network and the runtime                                             *)
(***************************************************************************)
\* the response begins: status line and headers
Response ==
  /\ call.st = "open" /\ call.res = "none"
  /\ \E head \in ResponseHeads, body \in WireBodies :
     \E chunks \in Chunkings(body) :
       LET contentLength == IF head.declaresLength THEN ToString(Len(body)) ELSE ""
       IN call' = [onResponse(call, head.statusCode, contentLength)
                     EXCEPT !.incoming = chunks]
  /\ UNCHANGED <<heap, clientOptions, clientLogger, log, now, requests, outcomes, defaults, mutations, toggles, invoked, held, other>>

\* a chunk of the body arrives
Data ==
  /\ call.st = "open" /\ call.res = "open" /\ call.incoming # <<>>
  /\ call' = [onData(call, Head(call.incoming)) EXCEPT !.incoming = Tail(@)]
  /\ UNCHANGED <<heap, clientOptions, clientLogger, log, now, requests, outcomes, defaults, mutations, toggles, invoked, held, other>>

\* the body is complete
End ==
  /\ call.st = "open" /\ call.res = "open" /\ call.incoming = <<>>
  /\ \E r \in {onEnd(heap, call, now)} : Step(r)
  /\ UNCHANGED <<clientOptions, clientLogger, now, defaults, mutations, toggles, invoked, held, other>>

\* the connection fails, before or during the response, or the destroyed
\* request reports its reset
Error ==
  /\ call.st \in {"open", "destroyed"}
  /\ \E errorMessage \in ErrorMessages :
     \E r \in {onError(heap, call, now, errorMessage)} : Step(r)
  /\ UNCHANGED <<clientOptions, clientLogger, now, defaults, mutations, toggles, invoked, held, other>>

\* the socket has been idle for the configured timeout
Timeout ==
  /\ call.st = "open"
  /\ \E r \in {onTimeout(heap, call, now)} : Step(r)
  /\ UNCHANGED <<clientOptions, clientLogger, now, defaults, mutations, toggles, invoked, held, other>>

\* time passes while a request is in flight (the clock is read when a call
\* starts and when an event of the call is handled, nowhere else)
Tick ==
  /\ call.st = "open"
  /\ now < MaxTime
  /\ now' = now + 1
  /\ UNCHANGED <<heap, clientOptions, clientLogger, call, log, requests, outcomes, defaults, mutations, toggles, invoked, held, other>>

\* The caller's await returns or throws.  The call's closure, its promise
\* and the objects only they reach are garbage from here on, and the caller
\* has read the log.
Await ==
  /\ call.st \in {"closed", "destroyed"}
  /\ call.promise.state # "pending"
  /\ call' = IdleCall
  /\ heap' = SubSeq(heap, 1, Len(DefaultsHeap))
  /\ log' = <<>>
  /\ requests' = 0
  /\ outcomes' = 0
  /\ UNCHANGED <<clientOptions, clientLogger, now, defaults, mutations, toggles, invoked, held, other>>

Next ==
  \/ getCampaign
  \/ createCampaign
  \/ updateCampaign
  \/ patchCampaign
  \/ getFeed
  \/ createFeed
  \/ updateFeed
  \/ getCountries
  \/ Response
  \/ Data
  \/ End
  \/ Error
  \/ Timeout
  \/ Tick
  \/ Await

Spec == Init /\ [][Next]_vars

\* The timer of a request is always armed (`timeout: options?.timeout ||
\* 30000`), so a request whose socket stays open and idle gets its 'timeout'
\* event.
FairSpec == Spec /\ WF_vars(Timeout)

\* The same client with a caller that also switches debug mode, at any
\* moment: between calls and while a call is in flight.
DebugNext ==
  \/ Next
  \/ \E enabled \in BOOLEAN : setDebugMode(enabled)

DebugSpec == Init /\ [][DebugNext]_vars

\* the largest number of writes a caller makes to the object it got from
\* getConfig
MaxWrites == 1

\* the writes a caller makes to that object: the field and the value
ConfigWrites == [timeout |-> 1, debug |-> TRUE]

\* a variant of getConfig that returns this.clientOptions itself
getConfigSameObject ==
  /\ CanCall
  /\ held = NotHeld
  /\ held' = [alias |-> TRUE, v |-> <<>>, writes |-> 0]
  /\ UNCHANGED <<heap, clientOptions, clientLogger, call, log, now, requests, outcomes,
                 defaults, mutations, toggles, invoked, other>>

\* PopAdsClient.getConfig(): `{ ...this.clientOptions }`, a new object with
\* the fields of the configuration
getConfig ==
  /\ CanCall
  /\ held = NotHeld
  /\ held' = [alias |-> FALSE, v |-> clientOptions, writes |-> 0]
  /\ UNCHANGED <<heap, clientOptions, clientLogger, call, log, now, requests, outcomes,
                 defaults, mutations, toggles, invoked, other>>

\* the caller writes a field of the object it got: the write lands in the
\* configuration of the client exactly if the object is the configuration
MutateConfig ==
  /\ CanCall
  /\ held # NotHeld
  /\ held.writes < MaxWrites
  /\ \E field \in DOMAIN ConfigWrites :
       IF held.alias
       THEN /\ clientOptions' = [clientOptions EXCEPT ![field] = ConfigWrites[field]]
            /\ held' = [held EXCEPT !.writes = @ + 1]
       ELSE /\ held' = [held EXCEPT !.v = [@ EXCEPT ![field] = ConfigWrites[field]],
                                    !.writes = @ + 1]
            /\ UNCHANGED clientOptions
  /\ UNCHANGED <<heap, clientLogger, call, log, now, requests, outcomes,
                 defaults, mutations, toggles, invoked, other>>

\* the client with a caller that, between its calls, also switches debug
\* mode, reads the configuration and writes to what it read
ConfigNext ==
  \/ Next
  \/ CanCall /\ \E enabled \in BOOLEAN : setDebugMode(enabled)
  \/ getConfig
  \/ MutateConfig

ConfigSpec == Init /\ [][ConfigNext]_vars

(***************************************************************************)
(* Properties of makeRequest                                               *)
(***************************************************************************)
\* JSON.parse of the body received so far
ParsedBody == JSONparse(call.responseData)

\* the response has ended and its body is an object with this status
ReceivedEnvelope(status) ==
  /\ call.res = "ended"
  /\ ParsedBody.ok
  /\ ParsedBody.v.t = "object"
  /\ Get(ParsedBody.v, "status") = Str(status)

\* the promise is rejected with an SDKError of this status
RejectedWith(status) ==
  /\ call.promise.state = "rejected"
  /\ call.promise.value.t = "SDKError"
  /\ call.promise.value.status = Num(status)

\* the messages mapping of the SDKError the promise is rejected with
RejectionMessages == Tree(heap, call.promise.value.messages)

C2_FailedEnvelopeRejects ==
  ReceivedEnvelope("failed") =>
    /\ call.promise.state = "rejected"
    /\ call.promise.value.t = "SDKError"
    /\ call.promise.value.status = Get(ParsedBody.v, "code")
    /\ RejectionMessages = Get(ParsedBody.v, "messages")

C2_Witness ==
  /\ ReceivedEnvelope("failed")
  /\ RejectedWith(404)
  /\ RejectionMessages = Obj([id |-> Arr(<<Str("not found")>>)])

\* C3: when the body received is an object whose status is 'success', the
\* promise is fulfilled with a value whose structure is exactly the parsed
\* body, whether or not a request logger is active.
C3_SuccessResolvesPayload ==
  ReceivedEnvelope("success") =>
    /\ call.promise.state = "fulfilled"
    /\ Tree(heap, call.promise.value) = ParsedBody.v

\* a response that holds a sensitive field was logged in redacted form and
\* the value of the promise holds the field as received
C3_Witness ==
  /\ ReceivedEnvelope("success")
  /\ call.requestLogger # NoLogger
  /\ call.promise.state = "fulfilled"
  /\ Tree(heap, call.promise.value) = SuccessBodyWithToken
  /\ \E i \in 1..Len(log) :
       /\ "response" \in DOMAIN log[i].args.o
       /\ log[i].args.o.response =
            Obj([status |-> Str("success"), code |-> Num(200), records |-> Num(1),
                 data |-> Obj([campaign |-> Obj([id |-> Num(123),
                                                 tracking_token |-> REDACTED])])])

\* C4: the timeout of a call rejects it with an SDKError of status 408 whose
\* message contains "timeout", and leaves the request destroyed or closed.
C4_TimeoutRejects408 ==
  [][Timeout =>
       /\ call'.promise.state = "rejected"
       /\ call'.promise.value.t = "SDKError"
       /\ call'.promise.value.status = Num(408)
       /\ LET messages == Tree(heap', call'.promise.value.messages)
          IN /\ messages.t = "object"
             /\ DOMAIN messages.o = {"error"}
             /\ Includes(messages.o.error.s, "timeout")
       /\ call'.st \in {"destroyed", "closed"}]_vars

C4_Witness ==
  /\ call.st = "destroyed"
  /\ RejectedWith(408)
  /\ Includes(RejectionMessages.o.error.s, "timeout")

\* C5: a connection error rejects a pending call with an SDKError of status
\* 500 whose messages hold the one entry `error`, the message of the
\* underlying error; a body that is no JSON text rejects the call with an
\* SDKError of status 500 whose messages hold the one entry `error`, which
\* names the parse failure.
C5_TransportAndParseFailures500 ==
  /\ [][(Error /\ call.promise.state = "pending") =>
          /\ call'.promise.state = "rejected"
          /\ call'.promise.value.t = "SDKError"
          /\ call'.promise.value.status = Num(500)
          /\ \E errorMessage \in ErrorMessages :
               /\ call' = onError(heap, call, now, errorMessage).call
               /\ Tree(heap', call'.promise.value.messages)
                    = Obj([error |-> Str(errorMessage)])]_vars
  /\ []((call.res = "ended" /\ ~ParsedBody.ok) =>
          /\ RejectedWith(500)
          /\ RejectionMessages.t = "object"
          /\ DOMAIN RejectionMessages.o = {"error"}
          /\ Includes(RejectionMessages.o.error.s, "Invalid JSON response")
          /\ Includes(RejectionMessages.o.error.s, "SyntaxError"))

\* a truncated body was received and rejected the call
C5_Witness ==
  /\ call.res = "ended"
  /\ call.responseData # <<>>
  /\ ~ParsedBody.ok
  /\ RejectedWith(500)
  /\ Includes(RejectionMessages.o.error.s, "Invalid JSON response")

\* C6: every rejection is an SDKError that carries a numeric status and a
\* messages mapping.
C6_RejectionsAreStructured ==
  call.promise.state = "rejected" =>
    /\ call.promise.value.t = "SDKError"
    /\ call.promise.value.status.t = "number"
    /\ IsRef(call.promise.value.messages)
    /\ heap[call.promise.value.messages.r].t = "object"

\* C7: every call hands exactly one request to https, from the moment it is
\* made and whatever follows, and its outcome is reported once: not while
\* the promise is pending, once from the moment it is settled.  Each call
\* of a sequence counting one request, the requests of the sequence are as
\* many as its calls.
C7_OneRequestPerCall ==
  /\ requests = (IF call.st = "idle" THEN 0 ELSE 1)
  /\ outcomes = (IF call.st = "idle" \/ call.promise.state = "pending" THEN 0 ELSE 1)

\* a call failed with a connection error and its request is finished: one
\* request was issued and one outcome reported
C7_Witness ==
  /\ call.st = "closed"
  /\ RejectedWith(500)
  /\ requests = 1
  /\ outcomes = 1

(***************************************************************************)
(* Properties of the default merge                                         *)
(***************************************************************************)
\* The deep merge of a user structure over a defaults structure: member by
\* member where both are objects, the user's value anywhere else.
RECURSIVE DeepMerge(_, _)
DeepMerge(template, user) ==
  IF template.t = "object" /\ user.t = "object"
  THEN Obj([k \in DOMAIN template.o \cup DOMAIN user.o |->
              IF k \notin DOMAIN user.o THEN template.o[k]
              ELSE IF k \notin DOMAIN template.o THEN user.o[k]
              ELSE DeepMerge(template.o[k], user.o[k])])
  ELSE user

\* the structure of the JSON text createCampaign wrote to the request
SentPayload == JSONparse(call.written[1].x).v

\* C8: the payload createCampaign sends is the deep merge of the caller's
\* payload over CAMPAIGN_DEFAULTS.
C8_SendsDeepMergeOverDefaults ==
  call.op = "createCampaign" =>
    /\ Len(call.written) = 1
    /\ SentPayload = DeepMerge(CAMPAIGN_DEFAULTS, Tree(heap, call.arg))

\* the caller passed {general_information: {name: "X"}, budget: {max_bid: 1,
\* budget: 10}}: the payload sent holds the name, the default of adult and
\* the caller's budget beside the default max_per_day
C8_Witness ==
  /\ call.op = "createCampaign"
  /\ Tree(heap, call.arg) =
       Obj([general_information |-> Obj([name |-> Str("X")]),
            budget |-> Obj([max_bid |-> Num(1), budget |-> Num(10)])])
  /\ SentPayload.o.general_information.o.name = Str("X")
  /\ SentPayload.o.general_information.o.adult = Bool(FALSE)
  /\ SentPayload.o.budget =
       Obj([max_bid |-> Num(1), budget |-> Num(10), max_per_day |-> Num(0)])
  /\ SentPayload.o.adscore = CAMPAIGN_DEFAULTS.o.adscore

(***************************************************************************)
(* The default merge as a function of the template and of the caller's     *)
(* payload                                                                 *)
(***************************************************************************)
\* the writes the holder of a merged payload makes to it
MaxMutations == 2

\* CAMPAIGN_DEFAULTS, and a template of the same shape whose lists of
\* categories and regions are not empty
ArrayTemplate ==
  [CAMPAIGN_DEFAULTS EXCEPT !.o.categories.o.list = Arr(<<Num(1), Num(2), Num(3)>>),
                            !.o.countries.o.regions = Arr(<<Str("EU")>>)]

Templates == {CAMPAIGN_DEFAULTS, ArrayTemplate}

\* creation payloads whose lists are empty, shorter and longer than the
\* lists of ArrayTemplate
MergePayloads ==
  CampaignPayloads \cup
  { Obj([general_information |-> Obj([name |-> Str("E")]),
         categories |-> Obj([list |-> EmptyArr])]),
    Obj([general_information |-> Obj([name |-> Str("L")]),
         categories |-> Obj([list |-> Arr(<<Num(4), Num(5), Num(6), Num(8)>>)]),
         countries |-> Obj([regions |-> Arr(<<Str("NA"), Str("SA")>>)])]) }

\* the cells of the template
TemplateCells == Len(Build(<<>>, defaults).h)

MergeInit ==
  \E template \in Templates :
    LET client == PopAdsClient(<<>>) IN
    /\ defaults = template
    /\ heap = Build(<<>>, template).h
    /\ clientOptions = client.clientOptions
    /\ clientLogger = client.logger
    /\ log = client.out
    /\ call = IdleCall
    /\ now = 0
    /\ requests = 0
    /\ outcomes = 0
    /\ mutations = 0
    /\ toggles = 0
    /\ invoked = <<>>
    /\ held = NotHeld
    /\ other = IdleCall

\* `const requestData = merge({}, CAMPAIGN_DEFAULTS, data)`.  The state of
\* the call keeps the caller's payload (arg) and the merged payload (body).
MergeDefaults ==
  /\ call.st = "idle"
  /\ \E payload \in MergePayloads :
       LET data == Build(heap, payload) IN
       \E requestData \in {mergeDefaults(data.h, data.v)} :
         /\ heap' = requestData.h
         /\ call' = [IdleCall EXCEPT !.st = "merged", !.op = "merge",
                                     !.arg = data.v, !.body = requestData.v]
  /\ UNCHANGED <<clientOptions, clientLogger, log, now, requests, outcomes, defaults, mutations, toggles, invoked, held, other>>

\* the holder of the merged payload writes into one of its objects or
\* arrays: a new member, a new last element
MutateMerged ==
  /\ call.st = "merged"
  /\ mutations < MaxMutations
  /\ \E a \in Reach(heap, call.body) :
       heap' = [heap EXCEPT ![a] = IF @.t = "array" THEN Arr(Append(@.a, Str("changed")))
                                   ELSE Put(@, "changed", Bool(TRUE))]
  /\ mutations' = mutations + 1
  /\ UNCHANGED <<clientOptions, clientLogger, call, log, now, requests, outcomes, defaults, toggles, invoked, held, other>>

\* the merged payload and the caller's payload are dropped
ReleaseMerged ==
  /\ call.st = "merged"
  /\ call' = IdleCall
  /\ heap' = SubSeq(heap, 1, TemplateCells)
  /\ mutations' = 0
  /\ UNCHANGED <<clientOptions, clientLogger, log, now, requests, outcomes, defaults, toggles, invoked, held, other>>

MergeNext ==
  \/ MergeDefaults
  \/ MutateMerged
  \/ ReleaseMerged

MergeSpec == MergeInit /\ [][MergeNext]_vars

\* the caller's payload and the merged payload as the merge left them
MergedUser == Tree(heap, call.arg)
MergedResult == Tree(heap, call.body)
JustMerged == call.st = "merged" /\ mutations = 0

\* every array of the user structure is, at the same path, the array of the
\* merged structure
RECURSIVE UserArraysReplace(_, _)
UserArraysReplace(user, merged) ==
  CASE user.t = "array" -> merged = user
    [] user.t = "object" ->
         /\ merged.t = "object"
         /\ \A k \in DOMAIN user.o :
              /\ k \in DOMAIN merged.o
              /\ UserArraysReplace(user.o[k], merged.o[k])
    [] OTHER -> TRUE

\* every array of the user structure is, at the same path of the merged
\* structure, laid over the array of the template: the user's elements at
\* the indices the user's array has, the template's elements after them
RECURSIVE UserArraysOverlay(_, _, _)
UserArraysOverlay(template, user, merged) ==
  CASE user.t = "array" ->
         IF template.t = "array"
         THEN merged = Arr(user.a \o SubSeq(template.a, Len(user.a) + 1, Len(template.a)))
         ELSE merged = user
    [] user.t = "object" ->
         /\ merged.t = "object"
         /\ \A k \in DOMAIN user.o :
              /\ k \in DOMAIN merged.o
              /\ UserArraysOverlay(IF template.t = "object" THEN Get(template, k)
                                   ELSE Undefined,
                                   user.o[k], merged.o[k])
    [] OTHER -> TRUE

C10_DefaultsNeverMutated ==
  /\ Tree(heap, DefaultsRef) = defaults
  /\ call.st = "merged" => Reach(heap, call.body) \cap Reach(heap, DefaultsRef) = {}

\* a merged payload was written into twice, one write into its root
C10_Witness ==
  /\ call.st = "merged"
  /\ mutations = MaxMutations
  /\ "changed" \in DOMAIN MergedResult.o
  /\ MergedResult # DeepMerge(defaults, MergedUser)
  /\ Tree(heap, DefaultsRef) = CAMPAIGN_DEFAULTS

(***************************************************************************)
(* The caller's objects and the log                                        *)
(***************************************************************************)
\* the objects callers pass to the operations
CallerPayloads == CampaignPayloads \cup UpdatePayloads \cup FeedPayloads

\* the entries of the log that carry this argument
EntriesWith(name) ==
  { i \in 1..Len(log) : log[i].args # Undefined /\ name \in DOMAIN log[i].args.o }

\* C11: the object a caller passes as the body of an operation is unchanged
\* by the operation: from the moment the call starts until its result is
\* taken, the object holds what the caller put into it.  Neither the merge
\* with the defaults nor the redaction for the log writes to it.
C11_CallerBodyUnchanged ==
  /\ [](call.st # "idle" /\ IsRef(call.arg) => Tree(heap, call.arg) \in CallerPayloads)
  /\ [][call.st # "idle" /\ call'.st # "idle" /\ IsRef(call.arg)
          => Tree(heap', call'.arg) = Tree(heap, call.arg)]_vars

\* an update whose body holds a sensitive field was logged in redacted form
\* and has settled, and the caller's object still holds the field
C11_Witness ==
  /\ call.op = "updateCampaign"
  /\ call.promise.state # "pending"
  /\ \E i \in EntriesWith("body") :
       log[i].args.o.body = Obj([general_information |-> Obj([name |-> Str("Z")]),
                                api_key |-> REDACTED])
  /\ Tree(heap, call.arg) = Obj([general_information |-> Obj([name |-> Str("Z")]),
                                 api_key |-> Str("secret123")])

\* the fragments that make the name of a key sensitive
SensitiveFragments == {"password", "token", "key", "secret", "api_key"}

\* a structure with, at every depth, the value of each key whose lowercased
\* name contains a sensitive fragment replaced by the fixed string, and
\* everything else as it is
RECURSIVE Redact(_)
Redact(tree) ==
  CASE tree.t = "object" ->
         Obj([k \in DOMAIN tree.o |->
                IF \E f \in SensitiveFragments : Includes(toLowerCase(k), f)
                THEN Str("[REDACTED]") ELSE Redact(tree.o[k])])
    [] tree.t = "array" -> Arr([i \in DOMAIN tree.a |-> Redact(tree.a[i])])
    [] OTHER -> tree

\* what is logged for a structure is its redaction
LoggedAs(logged, value) == IsContainer(value) => logged = Redact(value)

\* what is logged for a response text is the redaction of its parse
LoggedAsParsed(logged, parsed) == parsed.ok => LoggedAs(logged, parsed.v)

\* C12: every request body and every response in the log is the redaction
\* of the body sent or of the response received: at every depth, each key
\* whose lowercased name contains password, token, key, secret or api_key
\* holds '[REDACTED]' and every other key holds what it held.
C12_LoggedValuesAreRedacted ==
  [][\A i \in (Len(log) + 1)..Len(log') :
       /\ (log'[i].args # Undefined /\ "body" \in DOMAIN log'[i].args.o)
            => LoggedAs(log'[i].args.o.body, Tree(heap', call'.body))
       /\ (log'[i].args # Undefined /\ "response" \in DOMAIN log'[i].args.o)
            => LoggedAsParsed(log'[i].args.o.response, JSONparse(call'.responseData))]_vars

\* the log holds a request body whose top-level api_key is redacted next to
\* an untouched general_information, and a response whose tracking_token,
\* two levels down, is redacted next to an untouched id
C12_Witness ==
  /\ call.op = "patchCampaign"
  /\ Tree(heap, call.body) = Obj([general_information |-> Obj([name |-> Str("Z")]),
                                  api_key |-> Str("secret123")])
  /\ ParsedBody.ok /\ ParsedBody.v = SuccessBodyWithToken
  /\ \E i \in EntriesWith("body") :
       log[i].args.o.body = Obj([general_information |-> Obj([name |-> Str("Z")]),
                                api_key |-> REDACTED])
  /\ \E i \in EntriesWith("response") :
       log[i].args.o.response =
         Obj([status |-> Str("success"), code |-> Num(200), records |-> Num(1),
              data |-> Obj([campaign |-> Obj([id |-> Num(123),
                                              tracking_token |-> REDACTED])])])

\* the path and the query of a request target `path?query`
TargetPath(target) ==
  LET q == IndexOf(target, "?", 1)
  IN IF q = 0 THEN target ELSE SubSeq(target, 1, q - 1)

TargetQuery(target) ==
  LET q == IndexOf(target, "?", 1)
  IN IF q = 0 THEN "" ELSE SubSeq(target, q + 1, Len(target))

\* C13: every request a call hands to https carries the client's API key as
\* the query parameter 'key', whatever the operation, the method and the
\* body; the key is not part of the path.
C13_KeyInQueryOnly ==
  call.st # "idle" =>
    /\ TargetQuery(call.requestOptions.path) = "key=" \o ApiKey
    /\ ~Includes(TargetPath(call.requestOptions.path), ApiKey)

\* a PUT with a body, issued by the feed client, carries the key in its
\* query
C13_Witness ==
  /\ call.op = "updateFeed"
  /\ call.requestOptions.method = "PUT"
  /\ call.written # <<>>
  /\ requests = 1
  /\ call.requestOptions.path = "/apiv2/feed/update/77?key=test-api-key"

\* the strings in a structure: its string values and the names of its keys
RECURSIVE StringsOf(_)
StringsOf(tree) ==
  CASE tree.t = "string" -> {tree.s}
    [] tree.t = "object" ->
         DOMAIN tree.o \cup UNION {StringsOf(tree.o[k]) : k \in DOMAIN tree.o}
    [] tree.t = "array" -> UNION {StringsOf(tree.a[i]) : i \in DOMAIN tree.a}
    [] OTHER -> {}

\* neither the message nor the arguments of the entry hold the API key
KeyFree(entry) ==
  /\ ~Includes(entry.message, ApiKey)
  /\ \A str \in StringsOf(entry.args) : ~Includes(str, ApiKey)

\* C14: the API key is in no log entry, whether written by the
\* constructor, at the start of a request, at its completion or by the
\* debug toggle: not in the message and not in the arguments.
C14_KeyNeverLogged ==
  /\ \A i \in 1..Len(log) : KeyFree(log[i])
  /\ [][\A i \in (Len(log) + 1)..Len(log') : KeyFree(log'[i])]_vars

\* the log holds the constructor's entry, the entry of the debug toggle, the
\* start of a request whose target carries the key and its completion
C14_Witness ==
  /\ Len(log) = 4
  /\ Includes(log[1].message, "client initialized")
  /\ \E i \in 1..Len(log) : Includes(log[i].message, "Debug mode enabled")
  /\ EntriesWith("body") # {}
  /\ EntriesWith("response") \cup EntriesWith("error") # {}
  /\ Includes(call.requestOptions.path, ApiKey)

(***************************************************************************)
(* The loggers on their own: createLogger over all its arguments, and the  *)
(* four methods of the logger it returns                                   *)
(***************************************************************************)
\* the largest number of calls made to one logger
MaxCalls == 2

\* the messages handed to a logger
LogMessages == {"PopAds SDK client initialized", "Debug mode enabled"}

\* the arguments of createLogger
LoggerArguments ==
  [logger : {NoLogger, CustomLogger}, logLevel : LogLevels, debug : BOOLEAN]

\* createLogger(customLogger, logLevel, debug) with these arguments
CreateLogger(arguments) ==
  /\ clientOptions' = arguments
  /\ clientLogger' = createLogger(arguments.logger, arguments.logLevel, arguments.debug)
  /\ log' = <<>>
  /\ invoked' = <<>>
  /\ UNCHANGED <<heap, call, now, requests, outcomes, defaults, mutations, toggles, held, other>>

\* logger.debug / info / warn / error (message)
LoggerMethod(level, message) ==
  /\ Len(invoked) < MaxCalls
  /\ log' = log \o Emit(clientLogger, level, message, Undefined, now)
  /\ invoked' = Append(invoked, [level |-> level, message |-> message])
  /\ UNCHANGED <<heap, clientOptions, clientLogger, call, now, requests, outcomes,
                 defaults, mutations, toggles, held, other>>

LoggerInit ==
  \E arguments \in LoggerArguments :
    /\ heap = DefaultsHeap
    /\ clientOptions = arguments
    /\ clientLogger = createLogger(arguments.logger, arguments.logLevel, arguments.debug)
    /\ log = <<>>
    /\ call = IdleCall
    /\ now = 0
    /\ requests = 0
    /\ outcomes = 0
    /\ defaults = CAMPAIGN_DEFAULTS
    /\ mutations = 0
    /\ toggles = 0
    /\ invoked = <<>>
    /\ held = NotHeld
    /\ other = IdleCall

LoggerNext ==
  \/ \E arguments \in LoggerArguments : CreateLogger(arguments)
  \/ \E level \in LogLevels, message \in LogMessages : LoggerMethod(level, message)

LoggerSpec == LoggerInit /\ [][LoggerNext]_vars

\* the place of a severity in the order debug < info < warn < error
Severity(level) ==
  CASE level = "debug" -> 1 [] level = "info" -> 2 [] level = "warn" -> 3
    [] level = "error" -> 4

\* the calls among these that are at or above the severity
AtLeast(calls, minimum) ==
  SelectSeq(calls, LAMBDA c : Severity(c.level) >= Severity(minimum))

\* C15: a ConsoleLogger with minimum level L emits a call at severity S if
\* and only if S is at least L in the order debug < info < warn < error:
\* what it has emitted is, in order, one entry for each call made to it at
\* a severity of at least L, with the severity and the message of the call,
\* and nothing for the other calls.  A call at severity error is emitted
\* whatever L is.
C15_EmitsIffAtLeastMinimum ==
  clientLogger.kind = "ConsoleLogger" =>
    /\ Len(log) = Len(AtLeast(invoked, clientLogger.minLevel))
    /\ \A i \in 1..Len(log) :
         /\ log[i].level = AtLeast(invoked, clientLogger.minLevel)[i].level
         /\ Includes(log[i].message, AtLeast(invoked, clientLogger.minLevel)[i].message)
    /\ Len(SelectSeq(log, LAMBDA e : e.level = "error"))
         = Len(SelectSeq(invoked, LAMBDA c : c.level = "error"))

\* a logger with minimum level warn was called at debug and then at warn:
\* the first call left no entry, the second one did
C15_Witness ==
  /\ clientLogger = ConsoleLogger("warn")
  /\ Len(invoked) = 2
  /\ invoked[1].level = "debug"
  /\ invoked[2].level = "warn"
  /\ Len(log) = 1
  /\ log[1].level = "warn"

RequestEntries == EntriesWith("body") \cup EntriesWith("response") \cup EntriesWith("error")

\* C16: the configured logLevel is the minimum severity emitted.  For a
\* client without a custom logger whose calls log, an event of a request
\* (start and successful completion at debug, failed completion at error)
\* is emitted only if its severity is at least the configured logLevel.
C16_LogLevelIsMinimumSeverity ==
  ("logger" \notin DOMAIN clientOptions /\ call.st # "idle" /\ call.requestLogger # NoLogger)
    => \A i \in RequestEntries :
         Severity(log[i].level) >= Severity(clientOptions.logLevel)

\* neither debug nor enableInterception is set in this configuration
NeitherFlag(config) == ~config.debug /\ ~config.enableInterception

\* C18: when neither debug nor enableInterception is set, nothing is
\* logged: the constructor of such a client logs nothing, no step of a call
\* that was started under such a configuration logs anything, whether the
\* call succeeds or fails, and switching debug mode off logs nothing.
C18_NothingLoggedWithBothFlagsOff ==
  /\ NeitherFlag(clientOptions) => log = <<>>
  /\ [][IF toggles' # toggles
        THEN NeitherFlag(clientOptions') => log' = log
        ELSE (call'.st # "idle" /\ NeitherFlag(call'.config)) => log' = log]_vars

\* a call of a client with neither flag has failed, and the log is empty
C18_Witness ==
  /\ NeitherFlag(clientOptions)
  /\ toggles = 0
  /\ call.st # "idle"
  /\ call.op = "getCampaign"
  /\ NeitherFlag(call.config)
  /\ call.promise.state = "rejected"
  /\ outcomes = 1
  /\ log = <<>>

\* the entry reports the start of this call
IsStartOf(entry, c) ==
  /\ entry.level = "debug"
  /\ Includes(entry.message, c.requestOptions.method \o " " \o c.metadata.endpoint
                               \o " [" \o c.metadata.requestId \o "]")
  /\ entry.args # Undefined
  /\ "body" \in DOMAIN entry.args.o

\* debug or enableInterception is set in these options
LoggingRequested(options) ==
  \/ "debug" \in DOMAIN options /\ options.debug
  \/ "enableInterception" \in DOMAIN options /\ options.enableInterception

\* C19: makeRequest logs the start of a call if and only if debug or
\* enableInterception is set in the options it is called with, read when
\* the call starts; enableInterception alone is enough.  The start is the
\* one entry the call has logged when it hands the request to https, and no
\* later step of the call logs a start.
C19_StartLoggedIffRequested ==
  [][/\ (call.st = "idle" /\ call'.st # "idle") =>
          IF LoggingRequested(call'.options)
          THEN /\ Len(log') = Len(log) + 1
               /\ IsStartOf(log'[Len(log')], call')
               /\ call'.emittedBefore = 1
               /\ requests' = 1
          ELSE /\ log' = log
               /\ call'.emittedBefore = 0
     /\ (call.st # "idle" /\ call'.st # "idle") =>
          \A i \in (Len(log) + 1)..Len(log') : ~IsStartOf(log'[i], call')]_vars

\* a call made with enableInterception set and debug off has logged its
\* start before it handed its request to https
C19_Witness ==
  /\ call.st # "idle"
  /\ "enableInterception" \in DOMAIN call.options
  /\ call.options.enableInterception
  /\ ~call.options.debug
  /\ call.emittedBefore = 1
  /\ requests = 1
  /\ \E i \in 1..Len(log) : IsStartOf(log[i], call)

\* the client was constructed with debug on and without a logger of the
\* caller: only then does createLogger return a ConsoleLogger at the
\* default level 'info'
ConstructedWithDebug == clientLogger = ConsoleLogger("info")

\* C20: after setDebugMode(false) on a client constructed with debug on, the
\* calls started from then on log nothing at debug level, and the failure
\* of such a call is still logged at error level, as it was before the
\* switch.
C20_DebugOffKeepsErrorEvents ==
  [][(/\ ConstructedWithDebug
      /\ toggles' >= 1
      /\ ~clientOptions'.debug
      /\ call'.st # "idle"
      /\ ~call'.config.debug
      /\ call'.options # NoOptions)
       => /\ \A i \in (Len(log) + 1)..Len(log') : log'[i].level # "debug"
          /\ (call.promise.state = "pending" /\ call'.promise.state = "rejected")
               => \E i \in (Len(log) + 1)..Len(log') : log'[i].level = "error"]_vars

\* C21: the configuration given to the constructor is the configuration of
\* every request of every sub-client: a call that starts is sent to the
\* host of the configured base URL with the configured timeout, logs if and
\* only if debug or enableInterception is set in the client's configuration
\* as it is then (a toggle made before is seen), and logs to the caller's
\* logger if one was configured.
C21_ConfigurationReachesEveryCall ==
  [][(call.st = "idle" /\ call'.st # "idle") =>
       /\ call'.requestOptions.timeout = clientOptions.timeout
       /\ call'.requestOptions.hostname = URL(OptBaseUrl(clientOptions)).hostname
       /\ call'.requestLogger # NoLogger <=> LoggingRequested(clientOptions)
       /\ ("logger" \in DOMAIN clientOptions /\ call'.requestLogger # NoLogger)
            => call'.requestLogger = clientOptions.logger]_vars

\* the methods and the endpoints of the operations
FixedMethod ==
  [getCampaign |-> "GET", getFeed |-> "GET", createCampaign |-> "POST",
   createFeed |-> "POST", updateCampaign |-> "PUT", updateFeed |-> "PUT",
   patchCampaign |-> "PATCH"]

FixedEndpoints ==
  [getCampaign |-> {"/campaign/details/" \o ToString(id) : id \in CampaignIds},
   getFeed |-> {"/feed/details/" \o ToString(id) : id \in FeedIds},
   createCampaign |-> {"/campaign/add"},
   createFeed |-> {"/campaign/add"},
   updateCampaign |-> {"/campaign/update/" \o ToString(id) : id \in CampaignIds},
   updateFeed |-> {"/feed/update/" \o ToString(id) : id \in FeedIds},
   patchCampaign |-> {"/campaign/update/" \o ToString(id) : id \in CampaignIds}]

\* C22: each operation uses a fixed method and endpoint: the get operations
\* GET /{resource}/details/{id}, createCampaign and createFeed both POST
\* /campaign/add, the update operations PUT /{resource}/update/{id}, and
\* patchCampaign PATCH /campaign/update/{id}.  The request handed to https
\* has that method and, after the path of the base URL, that endpoint.
C22_FixedMethodAndEndpoint ==
  (call.st # "idle" /\ call.op \in DOMAIN FixedMethod) =>
    /\ call.requestOptions.method = FixedMethod[call.op]
    /\ \E endpoint \in FixedEndpoints[call.op] :
         TargetPath(call.requestOptions.path)
           = URL(OptBaseUrl(call.options)).pathname \o endpoint

\* a createFeed has posted to the endpoint of the campaign resource
C22_Witness ==
  /\ call.op = "createFeed"
  /\ call.requestOptions.method = "POST"
  /\ TargetPath(call.requestOptions.path) = "/apiv2/campaign/add"
  /\ call.written # <<>>

\* C23: the stored state of the client changes only through setDebugMode
\* and only in the debug field.  Over calls that succeed or fail, reads of
\* the configuration, writes to what was read and debug toggles, no step
\* changes a field of the configuration other than debug, debug changes only
\* in a step of setDebugMode, the logger of the client stays the same, and
\* every call that starts carries the credential of the constructor.
C23_OnlyDebugChanges ==
  [][/\ DOMAIN clientOptions' = DOMAIN clientOptions
     /\ \A field \in DOMAIN clientOptions \ {"debug"} :
          clientOptions'[field] = clientOptions[field]
     /\ clientOptions'.debug # clientOptions.debug => toggles' = toggles + 1
     /\ clientLogger' = clientLogger
     /\ (call.st = "idle" /\ call'.st # "idle")
          => TargetQuery(call'.requestOptions.path) = "key=" \o ApiKey]_vars

\* the caller has written to the object it got from getConfig, debug mode
\* was switched, and a call made afterwards with the configured timeout
\* has failed
C23_Witness ==
  /\ held.writes = 1
  /\ held.v.timeout = 1
  /\ clientOptions.timeout = 5000
  /\ toggles = 1
  /\ call.op = "getCampaign"
  /\ call.requestOptions.timeout = 5000
  /\ call.promise.state = "rejected"

\* the entries of the log that report the completion of a request
CompletionEntries == EntriesWith("response") \cup EntriesWith("error")

\* C24: one terminal handler classifies a call: at most one completion
\* event is logged for it and its outcome is computed once, also when the
\* timeout handler destroys the request and when events arrive after the
\* response has started.
C24_OneClassificationPerCall ==
  call.st # "idle" =>
    /\ Cardinality(CompletionEntries) <= 1
    /\ outcomes <= 1

\* C25: when a call logs, the handler that settles its promise emits the
\* completion event first: on the step that resolves or rejects the promise
\* (success, failed envelope, parse failure, connection error, timeout),
\* one completion entry is appended, with the duration and the status in its
\* message, the response for a resolved call and the error for a rejected
\* one, and it had been emitted when resolve or reject was called.
C25_CompletionLoggedBeforeSettling ==
  [][(/\ call.st # "idle" /\ call'.st # "idle"
      /\ call.requestLogger # NoLogger
      /\ call.promise.state = "pending"
      /\ call'.promise.state # "pending")
       => /\ Len(log') = Len(log) + 1
          /\ Includes(log'[Len(log')].message, "ms - ")
          /\ log'[Len(log')].args # Undefined
          /\ IF call'.promise.state = "fulfilled"
             THEN "response" \in DOMAIN log'[Len(log')].args.o
             ELSE "error" \in DOMAIN log'[Len(log')].args.o
          /\ call'.loggedBefore = 1]_vars

\* a logging call whose body could not be parsed was rejected after its
\* completion event had been emitted
C25_Witness ==
  /\ call.st = "closed"
  /\ call.res = "ended"
  /\ call.requestLogger # NoLogger
  /\ RejectedWith(500)
  /\ call.loggedBefore = 1
  /\ Cardinality(EntriesWith("error")) = 1

(***************************************************************************)
(* Two calls in flight on one client.  Every call of makeRequest runs the  *)
(* executor once, and the executor declares metadata, requestLogger, the   *)
(* request and its handlers as locals: each call has a closure of its own, *)
(* here the variables call and other.  The events of the two requests are  *)
(* handled one at a time, in any order.                                    *)
(***************************************************************************)
Slots == {1, 2}

Slot(i) == IF i = 1 THEN call ELSE other

\* a variant in which metadata is one object declared outside the executor:
\* the handlers of every call in flight write to it and read from it
closureShared(closures, i, c) ==
  [j \in DOMAIN closures |->
     IF j = i THEN c
     ELSE IF closures[j].st = "idle" THEN closures[j]
     ELSE [closures[j] EXCEPT !.metadata = c.metadata]]

\* the closures once a handler of call i has run with result c
closure(closures, i, c) == [closures EXCEPT ![i] = c]

\* the step of an operation or a handler of call i with result r
PairStep(i, r) ==
  LET closures == closure(<<call, other>>, i, r.call)
  IN /\ heap' = r.h
     /\ log' = log \o r.out
     /\ call' = closures[1]
     /\ other' = closures[2]
     /\ requests' = requests + r.requests
     /\ outcomes' = outcomes + (IF Slot(i).promise.state = "pending"
                                   /\ r.call.promise.state # "pending" THEN 1 ELSE 0)
     /\ UNCHANGED <<clientOptions, clientLogger, now, defaults, mutations, toggles,
                    invoked, held>>

\* CampaignClient.getCampaign(campaignId), while another call may be in flight
PairGetCampaign(i) ==
  /\ Slot(i).st = "idle"
  /\ \E campaignId \in CampaignIds, requestId \in RequestIds :
       PairStep(i, makeRequest(heap, ApiKey, "/campaign/details/" \o ToString(campaignId),
                               "GET", Undefined, clientOptions, requestId, now,
                               "getCampaign", Undefined))

\* the response of call i begins; its body arrives in one chunk
PairResponse(i) ==
  /\ Slot(i).st = "open" /\ Slot(i).res = "none"
  /\ \E head \in ResponseHeads, body \in {stringify(SuccessBody), stringify(FailedBody)} :
       LET contentLength == IF head.declaresLength THEN ToString(Len(body)) ELSE ""
       IN PairStep(i, [h |-> heap, out |-> <<>>, requests |-> 0,
                       call |-> [onResponse(Slot(i), head.statusCode, contentLength)
                                   EXCEPT !.incoming = <<body>>]])

PairData(i) ==
  /\ Slot(i).st = "open" /\ Slot(i).res = "open" /\ Slot(i).incoming # <<>>
  /\ PairStep(i, [h |-> heap, out |-> <<>>, requests |-> 0,
                  call |-> [onData(Slot(i), Head(Slot(i).incoming))
                              EXCEPT !.incoming = Tail(@)]])

PairEnd(i) ==
  /\ Slot(i).st = "open" /\ Slot(i).res = "open" /\ Slot(i).incoming = <<>>
  /\ \E r \in {onEnd(heap, Slot(i), now)} : PairStep(i, r)

PairError(i) ==
  /\ Slot(i).st \in {"open", "destroyed"}
  /\ \E r \in {onError(heap, Slot(i), now, "socket hang up")} : PairStep(i, r)

PairTimeout(i) ==
  /\ Slot(i).st = "open"
  /\ \E r \in {onTimeout(heap, Slot(i), now)} : PairStep(i, r)

PairTick ==
  /\ \E i \in Slots : Slot(i).st = "open"
  /\ now < MaxTime
  /\ now' = now + 1
  /\ UNCHANGED <<heap, clientOptions, clientLogger, call, log, requests, outcomes,
                 defaults, mutations, toggles, invoked, held, other>>

PairNext ==
  \/ \E i \in Slots : PairGetCampaign(i)
  \/ \E i \in Slots : PairResponse(i)
  \/ \E i \in Slots : PairData(i)
  \/ \E i \in Slots : PairEnd(i)
  \/ \E i \in Slots : PairError(i)
  \/ \E i \in Slots : PairTimeout(i)
  \/ PairTick

PairSpec == Init /\ [][PairNext]_vars

\* what logRequestComplete writes after the arrow of a completion event for
\* a call with this metadata: request id, duration and status
CompletionTail(metadata) ==
  " [" \o metadata.requestId \o "] - "
    \o ToStr(IF Truthy(metadata.duration) THEN metadata.duration ELSE Num(0)) \o "ms - "
    \o ToStr(IF Truthy(metadata.status) THEN metadata.status ELSE Num(0)) \o " "
    \o (IF Truthy(metadata.size) THEN "(" \o ToStr(metadata.size) \o " bytes)" ELSE "")

\* the entries added to the log are events of the call in state c: each
\* names its request id, and a completion event carries its duration, its
\* status and its size
EventsOf(c, old, new) ==
  \A k \in (Len(old) + 1)..Len(new) :
    /\ Includes(new[k].message, " [" \o c.metadata.requestId \o "]")
    /\ (new[k].args # Undefined /\ DOMAIN new[k].args.o \cap {"response", "error"} # {})
         => Includes(new[k].message, CompletionTail(c.metadata))

\* C26: calls in flight at the same time are isolated.  Each call owns its
\* metadata: a step of one call (its start or one of its events) leaves the
\* other call as it was (metadata, promise and all), and what it logs names
\* the request id, duration, status and size of the call that took the step.
C26_ConcurrentCallsIsolated ==
  [][/\ call' # call => other' = other /\ EventsOf(call', log, log')
     /\ other' # other => call' = call /\ EventsOf(other', log, log')
     /\ (call' = call /\ other' = other) => log' = log]_vars

\* two calls that were in flight together have both finished, one resolved
\* after a 200 and one rejected after a 404, each logged with its own id
C26_Witness ==
  /\ call.st = "closed" /\ other.st = "closed"
  /\ call.startTime = 0 /\ other.startTime = 0
  /\ call.metadata.duration = Num(1) /\ other.metadata.duration = Num(1)
  /\ call.metadata.requestId # other.metadata.requestId
  /\ call.metadata.status = Num(200) /\ other.metadata.status = Num(404)
  /\ call.promise.state = "fulfilled" /\ other.promise.state = "rejected"
  /\ Cardinality(CompletionEntries) = 2
  /\ \E k \in CompletionEntries : Includes(log[k].message, CompletionTail(call.metadata))
  /\ \E k \in CompletionEntries : Includes(log[k].message, CompletionTail(other.metadata))

\* the operations that send the caller's object as it is
PassThroughOps == {"updateCampaign", "patchCampaign", "createFeed", "updateFeed"}

\* the members of CAMPAIGN_DEFAULTS, at any depth, that this structure has
\* with the template's value
RECURSIVE DefaultsIn(_, _)
DefaultsIn(template, tree) ==
  IF template.t = "object" /\ tree.t = "object"
  THEN UNION { IF template.o[k].t = "object"
               THEN DefaultsIn(template.o[k], tree.o[k])
               ELSE IF tree.o[k] = template.o[k] THEN {k} ELSE {}
               : k \in DOMAIN template.o \cap DOMAIN tree.o }
  ELSE {}

\* C27: the default merge is applied by createCampaign alone.  updateCampaign,
\* patchCampaign, createFeed and updateFeed hand the caller's object itself
\* to makeRequest, and the body written to the request is that object's JSON
\* text: it parses to the caller's structure, with no member added from
\* CAMPAIGN_DEFAULTS.
C27_OnlyCreateCampaignMerges ==
  call.op \in PassThroughOps =>
    /\ call.body = call.arg
    /\ Len(call.written) = 1
    /\ SentPayload = Tree(heap, call.arg)
    /\ Tree(heap, call.arg) \in UpdatePayloads \cup FeedPayloads
    /\ DOMAIN SentPayload.o \cap DOMAIN CAMPAIGN_DEFAULTS.o = {"general_information"}
    /\ DefaultsIn(CAMPAIGN_DEFAULTS, SentPayload) = {}

\* an update of {general_information: {name: "Z"}, api_key: ...} was sent
\* with these two members only, general_information holding the name only
C27_Witness ==
  /\ call.op = "updateCampaign"
  /\ Len(call.written) = 1
  /\ DOMAIN SentPayload.o = {"general_information", "api_key"}
  /\ DOMAIN SentPayload.o.general_information.o = {"name"}
  /\ call.promise.state = "fulfilled"

\* the sinks the entries at these positions of the log were written to
SinksOf(entries) == { log[i].sink : i \in entries }

\* C28: whether and where a call logs is decided once, when it starts.  The
\* requestLogger the executor chose stays the call's logger until the call
\* is over, whatever setDebugMode does meanwhile: a call has logged its start
\* exactly if it has a requestLogger, a call whose promise is settled has
\* logged a completion exactly if it logged its start, a call whose promise
\* is pending has logged no completion, and the completion went where the
\* start went.
C28_LoggingDecidedAtStart ==
  /\ [](call.st # "idle" =>
          /\ (EntriesWith("body") # {}) <=> (call.requestLogger # NoLogger)
          /\ (call.requestLogger # NoLogger) <=> LoggingRequested(call.options)
          /\ IF call.promise.state = "pending"
             THEN CompletionEntries = {}
             ELSE (CompletionEntries # {}) <=> (EntriesWith("body") # {})
          /\ SinksOf(CompletionEntries) \subseteq SinksOf(EntriesWith("body")))
  /\ [][(call.st # "idle" /\ call'.st # "idle")
          => /\ call'.requestLogger = call.requestLogger
             /\ call'.options = call.options]_vars

\* a call that started with debug on has logged its completion after debug
\* was turned off while it was in flight
C28_Witness ==
  /\ call.st = "closed"
  /\ call.config.debug
  /\ ~clientOptions.debug
  /\ ~clientOptions.enableInterception
  /\ toggles = 1
  /\ call.promise.state = "fulfilled"
  /\ Cardinality(EntriesWith("body")) = 1
  /\ Cardinality(EntriesWith("response")) = 1

\* status codes a response can carry
StatusCodes == {200, 404, 500}

\* what the caller gets from a settled promise: the structure it was
\* fulfilled with, or the status, message and messages of the SDKError it
\* was rejected with, or the error of another kind it was rejected with
OutcomeTree(h, promise) ==
  IF promise.state = "fulfilled" THEN [value |-> Tree(h, promise.value)]
  ELSE IF promise.value.t = "SDKError"
    THEN [status |-> promise.value.status, message |-> promise.value.message,
          messages |-> Tree(h, promise.value.messages)]
  ELSE [thrown |-> promise.value]

\* C29: the outcome of a call whose response has ended is decided by the
\* body received, never by the HTTP status code.  When the end of a response
\* settles a call, the call is fulfilled or rejected with the same value as
\* it would have been had the response carried any other status code.
C29_OutcomeIndependentOfStatus ==
  [][(/\ call.st = "open" /\ call.res = "open" /\ call'.res = "ended"
      /\ call.promise.state = "pending")
       => /\ call'.promise.state # "pending"
          /\ \A statusCode \in StatusCodes :
               LET alt == onEnd(heap, [call EXCEPT !.metadata.status = Num(statusCode)], now)
               IN /\ alt.call.promise.state = call'.promise.state
                  /\ OutcomeTree(alt.h, alt.call.promise)
                       = OutcomeTree(heap', call'.promise)]_vars

\* a response of status 404 whose body is a success envelope has fulfilled
\* the call with the body
C29_Witness ==
  /\ call.res = "ended"
  /\ call.metadata.status = Num(404)
  /\ ReceivedEnvelope("success")
  /\ call.promise.state = "fulfilled"
  /\ Tree(heap, call.promise.value) = SuccessBody

(***************************************************************************)
(* A client whose caller supplied a logger that throws                     *)
(***************************************************************************)
ThrowInit ==
  \E member \in {"body", "response", "error"} :
    LET client == PopAdsClient([debug |-> TRUE, logger |-> FailingLogger(member)]) IN
    /\ heap = DefaultsHeap
    /\ clientOptions = client.clientOptions
    /\ clientLogger = client.logger
    /\ log = client.out
    /\ call = IdleCall
    /\ now = 0
    /\ requests = 0
    /\ outcomes = 0
    /\ defaults = CAMPAIGN_DEFAULTS
    /\ mutations = 0
    /\ toggles = 0
    /\ invoked = <<>>
    /\ held = NotHeld
    /\ other = IdleCall

ThrowSpec == ThrowInit /\ [][Next]_vars

\* the call as it would be had it started with logging inactive
Quiet(c) == [c EXCEPT !.requestLogger = NoLogger]

\* the call in state c over heap h has the outcome of the result alt of a
\* handler: as settled, and with the same value
SameOutcome(alt, c, h) ==
  /\ alt.call.promise.state = c.promise.state
  /\ c.promise.state # "pending"
       => OutcomeTree(alt.h, alt.call.promise) = OutcomeTree(h, c.promise)

\* C30: logging does not influence the outcome of a call.  A call that
\* starts issues its request and stays pending, as it does with logging
\* inactive, and every event of the call (the end of the response, a
\* connection error, the timeout) leaves its promise in the state and with
\* the value that the same event gives the same call with logging inactive,
\* whatever logger the call logs to.
C30_LoggingDoesNotChangeOutcome ==
  [][/\ (call.st = "idle" /\ call'.st # "idle" /\ call'.op # "")
          => (call'.promise.state = "pending" /\ requests' = 1)
     /\ End => SameOutcome(onEnd(heap, Quiet(call), now), call', heap')
     /\ Timeout => SameOutcome(onTimeout(heap, Quiet(call), now), call', heap')
     /\ \A errorMessage \in ErrorMessages :
          (/\ Error
           /\ call' = onError(heap, call, now, errorMessage).call
           /\ heap' = onError(heap, call, now, errorMessage).h)
            => SameOutcome(onError(heap, Quiet(call), now, errorMessage), call', heap')]_vars

====
